---- MODULE Spec2Model ----
(***************************************************************************)
(* Verification model of the Cloud Agents Kanban board                     *)
(* (components/kanban/default.tsx and lib/cursor-api.ts).                  *)
(*                                                                         *)
(* The specifications share the variables below:                           *)
(*   SpecClassify   getColumnForStatus applied to one bounded input        *)
(*   SpecNormalize  normalizeColumnOrder applied repeatedly to one input   *)
(*   SpecRead       the reads of persisted state applied to one store      *)
(*   SpecOrder      column order state, its sync effect and local storage  *)
(*   SpecOrderLive  SpecOrder with the sync effect run when scheduled      *)
(*   SpecBoard      the mounted board without the poll triggers            *)
(*   SpecPoll       agent polls, the polling interval and the drawer       *)
(*   SpecFanOut     fetchPrStatusesForAgents and the PR status cache       *)
(*   SpecPages      getAllAgents over the pages of one directory service   *)
(*   SpecRelay      the relay handling one request                         *)
(*   SpecModal      the API key modal and the stored key                   *)
(*   Spec           the mounted board: column order state, its sync        *)
(*                  effect, local storage, drafts, agent polls             *)
(***************************************************************************)
EXTENDS Integers, Sequences, FiniteSets, TLC

VARIABLES
    args,           \* arguments of the pure function under check
    result,         \* what the pure function returned (a history of returns)
    storage,        \* window.localStorage: key -> item
    columnOrder,    \* React state columnOrder
    syncPending,    \* the column-order sync effect is scheduled
    written,        \* saveColumnOrder has written the storage key in this session
    saveFailed,     \* the last setItem of saveColumnOrder threw
    reordered,      \* the keys Kanban last handed to onValueChange (<<>>: none yet)
    apiKeySet,      \* prop apiKeySet of CloudAgentsKanban
    loadPending,    \* the initial-load effect is scheduled
    agents,         \* React state agents
    prStatuses,     \* React state prStatuses (agent id -> PrStatus)
    drafts,         \* React state drafts
    polls,          \* loadAgents calls in flight
    agentsOf,       \* the poll whose response setAgents last took (0: none)
    fanOut,         \* the fan-out whose map setPrStatuses last took: its poll and
                    \* what each of its lookups returned
    started,        \* number of loadAgents calls started so far
    now,            \* Date.now()
    isLoading,      \* React state isLoading
    isFetchingPrStatus, \* React state isFetchingPrStatus
    error,          \* React state error
    selectedAgent,  \* React state selectedAgent
    selectedIsDraft, \* React state selectedIsDraft
    isDrawerOpen,   \* React state isDrawerOpen
    timer,          \* the interval of the auto-polling effect (Null: none is set)
    timerPending,   \* the auto-polling effect is scheduled
    events,         \* user and timer events so far
    crashed,        \* an error thrown in an effect or a render unmounted the tree
    PR_STATUS_CACHE, \* module-level cache: PR URL -> [status, fetchedAt]
    batchAt,        \* fetchPrStatusesForAgents: the loop variable i
    awaiting,       \* fetchPrStatusesForAgents waits in Promise.all(promises)
    outstanding,    \* ids of the agents whose lookup waits for the network
    results,        \* fetchPrStatusesForAgents: the map built so far
    fanOutCalls,    \* calls of fetchPrStatusesForAgents so far
    cursor,         \* getAllAgents: let cursor
    allAgents,      \* getAllAgents: const allAgents
    requested,      \* the queries listAgents has sent, in order
    responses,      \* what came back for them, in order
    storedKey,      \* localStorage item of the API key (Null: none)
    apiKey,         \* ApiKeyModal state apiKey (the text of the input)
    userEmail,      \* ApiKeyModal state userEmail
    modalError,     \* ApiKeyModal state error
    modalLoading,   \* ApiKeyModal state isLoading
    test            \* handleTestConnection in flight (Null: none): its previousKey

orderVars == <<columnOrder, syncPending, written, saveFailed, reordered>>
draftVars == <<drafts, now>>
drawerVars == <<selectedAgent, selectedIsDraft, isDrawerOpen>>
pollVars == <<agents, prStatuses, polls, agentsOf, fanOut, started, isLoading,
              isFetchingPrStatus, error>>
timerVars == <<timer, timerPending>>
fanOutVars == <<PR_STATUS_CACHE, batchAt, awaiting, outstanding, results, fanOutCalls>>
pageVars == <<cursor, allAgents, requested, responses>>
keyVars == <<storedKey, apiKey, userEmail, modalError, modalLoading, test>>
probeVars == <<args, result, fanOutVars, pageVars, keyVars>>

boardVars == <<storage, orderVars, apiKeySet, loadPending, draftVars, drawerVars,
               pollVars, timerVars, events, crashed>>

vars == <<probeVars, boardVars>>

(***************************************************************************)
(* JavaScript values that may be undefined or null carry their type.       *)
(***************************************************************************)
Undefined == [js |-> "undefined"]
Null == [js |-> "null"]
Str(s) == [js |-> "string", val |-> s]
Bool(b) == [js |-> "boolean", val |-> b]

\* ToBoolean: undefined, null, "" and false are falsy; objects are truthy
Truthy(v) ==
    CASE v.js = "undefined" -> FALSE
      [] v.js = "null" -> FALSE
      [] v.js = "string" -> v.val /= ""
      [] v.js = "boolean" -> v.val
      [] OTHER -> TRUE

(***************************************************************************)
(* Column configuration                                                    *)
(***************************************************************************)
\* Object.keys(COLUMNS), in insertion order
allColumnKeys ==
    << "backlog", "creating", "running", "needs_input", "failed", "draft_pr",
       "checks_failing", "has_conflict", "checks_pending", "awaiting_review",
       "approved", "merged" >>

Range(s) == { s[i] : i \in 1..Len(s) }

(***************************************************************************)
(* normalizeColumnOrder                                                    *)
(***************************************************************************)
\* first loop: for (const key of order) if (allowed.has(key) && !seen.has(key));
\* normalized and seen are the array and the set the loop has built so far
RECURSIVE keepLoop(_, _, _, _, _)
keepLoop(order, i, allowed, normalized, seen) ==
    IF i > Len(order) THEN [normalized |-> normalized, seen |-> seen]
    ELSE IF order[i] \in allowed /\ order[i] \notin seen
         THEN keepLoop(order, i + 1, allowed, Append(normalized, order[i]),
                       seen \cup {order[i]})
         ELSE keepLoop(order, i + 1, allowed, normalized, seen)

\* second loop: for (const key of allColumns) if (!seen.has(key))
RECURSIVE appendLoop(_, _, _, _)
appendLoop(allColumns, i, normalized, seen) ==
    IF i > Len(allColumns) THEN normalized
    ELSE IF allColumns[i] \notin seen
         THEN appendLoop(allColumns, i + 1, Append(normalized, allColumns[i]),
                         seen \cup {allColumns[i]})
         ELSE appendLoop(allColumns, i + 1, normalized, seen)

\* faulty variant: the first loop never records what it has seen
RECURSIVE keepLoop_NoSeen(_, _, _, _, _)
keepLoop_NoSeen(order, i, allowed, normalized, seen) ==
    IF i > Len(order) THEN [normalized |-> normalized, seen |-> seen]
    ELSE IF order[i] \in allowed /\ order[i] \notin seen
         THEN keepLoop_NoSeen(order, i + 1, allowed, Append(normalized, order[i]), seen)
         ELSE keepLoop_NoSeen(order, i + 1, allowed, normalized, seen)

normalizeColumnOrder_NoSeen(order, allColumns) ==
    LET kept == keepLoop_NoSeen(order, 1, Range(allColumns), <<>>, {})
    IN appendLoop(allColumns, 1, kept.normalized, kept.seen)

\* faulty variant: the allowed-set test is dropped, unknown keys are kept
normalizeColumnOrder_KeepUnknown(order, allColumns) ==
    LET kept == keepLoop(order, 1, Range(order) \cup Range(allColumns), <<>>, {})
    IN appendLoop(allColumns, 1, kept.normalized, kept.seen)

\* faulty variant: the missing canonical keys are put in front instead of appended
normalizeColumnOrder_MissingFirst(order, allColumns) ==
    LET kept == keepLoop(order, 1, Range(allColumns), <<>>, {})
    IN appendLoop(allColumns, 1, <<>>, kept.seen) \o kept.normalized

normalizeColumnOrder(order, allColumns) ==
    LET kept == keepLoop(order, 1, Range(allColumns), <<>>, {})
    IN appendLoop(allColumns, 1, kept.normalized, kept.seen)

(***************************************************************************)
(* getColumnForStatus                                                      *)
(***************************************************************************)
\* faulty variant: the PR-status test comes before the PR-URL test
getColumnForStatus_UrlAfterStatus(status, prUrl, prStatus) ==
    IF status = "DRAFT" THEN "backlog"
    ELSE IF status = "CREATING" THEN "creating"
    ELSE IF status = "RUNNING" THEN "running"
    ELSE IF status = "ERROR" \/ status = "EXPIRED" THEN "failed"
    ELSE IF status = "FINISHED" THEN
        IF ~Truthy(prStatus) THEN "awaiting_review"
        ELSE IF ~Truthy(prUrl) THEN "needs_input"
        ELSE IF prStatus.state = "merged" THEN "merged"
        ELSE IF prStatus.state = "closed" THEN "merged"
        ELSE IF prStatus.isDraft THEN "draft_pr"
        ELSE IF prStatus.mergeable = Bool(FALSE) \/ prStatus.mergeableState = Str("dirty")
             THEN "has_conflict"
        ELSE IF prStatus.checksStatus = "failure" THEN "checks_failing"
        ELSE IF prStatus.checksStatus = "pending" THEN "checks_pending"
        ELSE IF prStatus.hasApproval \/ prStatus.reviewDecision = Str("APPROVED")
             THEN "approved"
        ELSE "awaiting_review"
    ELSE "needs_input"

\* faulty variant: the draft test is made only after the PR-based classification
getColumnForStatus_DraftLast(status, prUrl, prStatus) ==
    IF Truthy(prUrl) /\ Truthy(prStatus) /\ prStatus.state = "merged" THEN "merged"
    ELSE IF status = "DRAFT" THEN "backlog"
    ELSE IF status = "CREATING" THEN "creating"
    ELSE IF status = "RUNNING" THEN "running"
    ELSE IF status = "ERROR" \/ status = "EXPIRED" THEN "failed"
    ELSE IF status = "FINISHED" THEN
        IF ~Truthy(prUrl) THEN "needs_input"
        ELSE IF ~Truthy(prStatus) THEN "awaiting_review"
        ELSE IF prStatus.state = "closed" THEN "merged"
        ELSE IF prStatus.isDraft THEN "draft_pr"
        ELSE IF prStatus.mergeable = Bool(FALSE) \/ prStatus.mergeableState = Str("dirty")
             THEN "has_conflict"
        ELSE IF prStatus.checksStatus = "failure" THEN "checks_failing"
        ELSE IF prStatus.checksStatus = "pending" THEN "checks_pending"
        ELSE IF prStatus.hasApproval \/ prStatus.reviewDecision = Str("APPROVED")
             THEN "approved"
        ELSE "awaiting_review"
    ELSE "needs_input"

\* faulty variant: the checks tests come before the conflict test
getColumnForStatus_ChecksFirst(status, prUrl, prStatus) ==
    IF status = "DRAFT" THEN "backlog"
    ELSE IF status = "CREATING" THEN "creating"
    ELSE IF status = "RUNNING" THEN "running"
    ELSE IF status = "ERROR" \/ status = "EXPIRED" THEN "failed"
    ELSE IF status = "FINISHED" THEN
        IF ~Truthy(prUrl) THEN "needs_input"
        ELSE IF ~Truthy(prStatus) THEN "awaiting_review"
        ELSE IF prStatus.state = "merged" THEN "merged"
        ELSE IF prStatus.state = "closed" THEN "merged"
        ELSE IF prStatus.isDraft THEN "draft_pr"
        ELSE IF prStatus.checksStatus = "failure" THEN "checks_failing"
        ELSE IF prStatus.checksStatus = "pending" THEN "checks_pending"
        ELSE IF prStatus.mergeable = Bool(FALSE) \/ prStatus.mergeableState = Str("dirty")
             THEN "has_conflict"
        ELSE IF prStatus.hasApproval \/ prStatus.reviewDecision = Str("APPROVED")
             THEN "approved"
        ELSE "awaiting_review"
    ELSE "needs_input"

\* faulty variant: a closed PR gets a column of its own, as in the older column scheme
getColumnForStatus_ClosedColumn(status, prUrl, prStatus) ==
    IF status = "DRAFT" THEN "backlog"
    ELSE IF status = "CREATING" THEN "creating"
    ELSE IF status = "RUNNING" THEN "running"
    ELSE IF status = "ERROR" \/ status = "EXPIRED" THEN "failed"
    ELSE IF status = "FINISHED" THEN
        IF ~Truthy(prUrl) THEN "needs_input"
        ELSE IF ~Truthy(prStatus) THEN "awaiting_review"
        ELSE IF prStatus.state = "merged" THEN "merged"
        ELSE IF prStatus.state = "closed" THEN "closed"
        ELSE IF prStatus.isDraft THEN "draft_pr"
        ELSE IF prStatus.mergeable = Bool(FALSE) \/ prStatus.mergeableState = Str("dirty")
             THEN "has_conflict"
        ELSE IF prStatus.checksStatus = "failure" THEN "checks_failing"
        ELSE IF prStatus.checksStatus = "pending" THEN "checks_pending"
        ELSE IF prStatus.hasApproval \/ prStatus.reviewDecision = Str("APPROVED")
             THEN "approved"
        ELSE "awaiting_review"
    ELSE "needs_input"

\* faulty variant: a PR whose status is not fetched yet is held back in needs_input
getColumnForStatus_NoFallback(status, prUrl, prStatus) ==
    IF status = "DRAFT" THEN "backlog"
    ELSE IF status = "CREATING" THEN "creating"
    ELSE IF status = "RUNNING" THEN "running"
    ELSE IF status = "ERROR" \/ status = "EXPIRED" THEN "failed"
    ELSE IF status = "FINISHED" THEN
        IF ~Truthy(prUrl) THEN "needs_input"
        ELSE IF ~Truthy(prStatus) THEN "needs_input"
        ELSE IF prStatus.state = "merged" THEN "merged"
        ELSE IF prStatus.state = "closed" THEN "merged"
        ELSE IF prStatus.isDraft THEN "draft_pr"
        ELSE IF prStatus.mergeable = Bool(FALSE) \/ prStatus.mergeableState = Str("dirty")
             THEN "has_conflict"
        ELSE IF prStatus.checksStatus = "failure" THEN "checks_failing"
        ELSE IF prStatus.checksStatus = "pending" THEN "checks_pending"
        ELSE IF prStatus.hasApproval \/ prStatus.reviewDecision = Str("APPROVED")
             THEN "approved"
        ELSE "awaiting_review"
    ELSE "needs_input"

\* faulty variant: the draft flag is read before the merged and closed states
getColumnForStatus_DraftBeforeState(status, prUrl, prStatus) ==
    IF status = "DRAFT" THEN "backlog"
    ELSE IF status = "CREATING" THEN "creating"
    ELSE IF status = "RUNNING" THEN "running"
    ELSE IF status = "ERROR" \/ status = "EXPIRED" THEN "failed"
    ELSE IF status = "FINISHED" THEN
        IF ~Truthy(prUrl) THEN "needs_input"
        ELSE IF ~Truthy(prStatus) THEN "awaiting_review"
        ELSE IF prStatus.isDraft THEN "draft_pr"
        ELSE IF prStatus.state = "merged" THEN "merged"
        ELSE IF prStatus.state = "closed" THEN "merged"
        ELSE IF prStatus.mergeable = Bool(FALSE) \/ prStatus.mergeableState = Str("dirty")
             THEN "has_conflict"
        ELSE IF prStatus.checksStatus = "failure" THEN "checks_failing"
        ELSE IF prStatus.checksStatus = "pending" THEN "checks_pending"
        ELSE IF prStatus.hasApproval \/ prStatus.reviewDecision = Str("APPROVED")
             THEN "approved"
        ELSE "awaiting_review"
    ELSE "needs_input"

\* faulty variant: the conflict test precedes the draft test
getColumnForStatus_ConflictBeforeDraft(status, prUrl, prStatus) ==
    IF status = "DRAFT" THEN "backlog"
    ELSE IF status = "CREATING" THEN "creating"
    ELSE IF status = "RUNNING" THEN "running"
    ELSE IF status = "ERROR" \/ status = "EXPIRED" THEN "failed"
    ELSE IF status = "FINISHED" THEN
        IF ~Truthy(prUrl) THEN "needs_input"
        ELSE IF ~Truthy(prStatus) THEN "awaiting_review"
        ELSE IF prStatus.state = "merged" THEN "merged"
        ELSE IF prStatus.state = "closed" THEN "merged"
        ELSE IF prStatus.mergeable = Bool(FALSE) \/ prStatus.mergeableState = Str("dirty")
             THEN "has_conflict"
        ELSE IF prStatus.isDraft THEN "draft_pr"
        ELSE IF prStatus.checksStatus = "failure" THEN "checks_failing"
        ELSE IF prStatus.checksStatus = "pending" THEN "checks_pending"
        ELSE IF prStatus.hasApproval \/ prStatus.reviewDecision = Str("APPROVED")
             THEN "approved"
        ELSE "awaiting_review"
    ELSE "needs_input"

\* faulty variant: a mergeability that is not yet computed counts as a conflict
getColumnForStatus_NullIsConflict(status, prUrl, prStatus) ==
    IF status = "DRAFT" THEN "backlog"
    ELSE IF status = "CREATING" THEN "creating"
    ELSE IF status = "RUNNING" THEN "running"
    ELSE IF status = "ERROR" \/ status = "EXPIRED" THEN "failed"
    ELSE IF status = "FINISHED" THEN
        IF ~Truthy(prUrl) THEN "needs_input"
        ELSE IF ~Truthy(prStatus) THEN "awaiting_review"
        ELSE IF prStatus.state = "merged" THEN "merged"
        ELSE IF prStatus.state = "closed" THEN "merged"
        ELSE IF prStatus.isDraft THEN "draft_pr"
        ELSE IF prStatus.mergeable /= Bool(TRUE) \/ prStatus.mergeableState = Str("dirty")
             THEN "has_conflict"
        ELSE IF prStatus.checksStatus = "failure" THEN "checks_failing"
        ELSE IF prStatus.checksStatus = "pending" THEN "checks_pending"
        ELSE IF prStatus.hasApproval \/ prStatus.reviewDecision = Str("APPROVED")
             THEN "approved"
        ELSE "awaiting_review"
    ELSE "needs_input"

\* faulty variant: a status outside AgentStatus is shown as failed
getColumnForStatus_UnknownIsFailed(status, prUrl, prStatus) ==
    IF status = "DRAFT" THEN "backlog"
    ELSE IF status = "CREATING" THEN "creating"
    ELSE IF status = "RUNNING" THEN "running"
    ELSE IF status = "ERROR" \/ status = "EXPIRED" THEN "failed"
    ELSE IF status = "FINISHED" THEN
        IF ~Truthy(prUrl) THEN "needs_input"
        ELSE IF ~Truthy(prStatus) THEN "awaiting_review"
        ELSE IF prStatus.state = "merged" THEN "merged"
        ELSE IF prStatus.state = "closed" THEN "merged"
        ELSE IF prStatus.isDraft THEN "draft_pr"
        ELSE IF prStatus.mergeable = Bool(FALSE) \/ prStatus.mergeableState = Str("dirty")
             THEN "has_conflict"
        ELSE IF prStatus.checksStatus = "failure" THEN "checks_failing"
        ELSE IF prStatus.checksStatus = "pending" THEN "checks_pending"
        ELSE IF prStatus.hasApproval \/ prStatus.reviewDecision = Str("APPROVED")
             THEN "approved"
        ELSE "awaiting_review"
    ELSE "failed"

getColumnForStatus(status, prUrl, prStatus) ==
    IF status = "DRAFT" THEN "backlog"
    ELSE IF status = "CREATING" THEN "creating"
    ELSE IF status = "RUNNING" THEN "running"
    ELSE IF status = "ERROR" \/ status = "EXPIRED" THEN "failed"
    ELSE IF status = "FINISHED" THEN
        IF ~Truthy(prUrl) THEN "needs_input"
        ELSE IF ~Truthy(prStatus) THEN "awaiting_review"
        ELSE IF prStatus.state = "merged" THEN "merged"
        ELSE IF prStatus.state = "closed" THEN "merged"
        ELSE IF prStatus.isDraft THEN "draft_pr"
        ELSE IF prStatus.mergeable = Bool(FALSE) \/ prStatus.mergeableState = Str("dirty")
             THEN "has_conflict"
        ELSE IF prStatus.checksStatus = "failure" THEN "checks_failing"
        ELSE IF prStatus.checksStatus = "pending" THEN "checks_pending"
        ELSE IF prStatus.hasApproval \/ prStatus.reviewDecision = Str("APPROVED")
             THEN "approved"
        ELSE "awaiting_review"
    ELSE "needs_input"

(***************************************************************************)
(* Inputs of the pure functions                                            *)
(***************************************************************************)
\* AgentStatus, and one value outside it (a status of the older API scheme)
AgentStatuses == {"CREATING", "RUNNING", "FINISHED", "ERROR", "EXPIRED", "DRAFT"}
StatusInputs == AgentStatuses \cup {"STOPPED"}

PrUrlInputs == {Undefined, Str(""), Str("https://github.com/o/r/pull/1")}

\* PrStatus objects: every combination of the seven fields
PrStatusObjects ==
    [js : {"object"},
     state : {"open", "closed", "merged"},
     isDraft : BOOLEAN,
     mergeable : {Bool(TRUE), Bool(FALSE), Null},
     mergeableState : {Null, Str("dirty"), Str("clean"), Str("unknown")},
     checksStatus : {"pending", "success", "failure", "unknown"},
     hasApproval : BOOLEAN,
     reviewDecision : {Null, Str("APPROVED"), Str("CHANGES_REQUESTED")}]

PrStatusInputs == {Undefined, Null} \cup PrStatusObjects

\* keys an order may hold: some canonical ones and two that are not canonical
OrderKeyInputs == {"backlog", "creating", "running", "merged", "ghost_column", "in_review"}

\* longest order given to normalizeColumnOrder
MaxOrderLen == 3
\* number of successive applications of normalizeColumnOrder
MaxNormalizeCalls == 2

RECURSIVE SeqsUpTo(_, _)
SeqsUpTo(S, n) ==
    IF n = 0 THEN {<<>>}
    ELSE LET shorter == SeqsUpTo(S, n - 1)
         IN shorter \cup { Append(q, x) : q \in { r \in shorter : Len(r) = n - 1 }, x \in S }

CanonicalInputs == { allColumnKeys, <<"backlog", "creating", "running">> }

NotCalled == <<>>

(***************************************************************************)
(* window.localStorage                                                     *)
(*                                                                         *)
(* getItem returns null or the stored text.  A stored text is modelled by  *)
(* what JSON.parse makes of it: src = "" is the empty text, "garbage" a    *)
(* text JSON.parse throws on, "json" a text that parses to `value`.        *)
(***************************************************************************)
EmptyText == [src |-> ""]
GarbageText == [src |-> "garbage"]
JsonText(v) == [src |-> "json", value |-> v]

JsonArray(items) == [js |-> "array", items |-> items]
JsonObject == [js |-> "object"]
JsonNumber(n) == [js |-> "number", val |-> n]

Item(text) == [js |-> "string", val |-> text]

\* !raw for a value read with getItem
FalsyItem(raw) == raw = Null \/ raw.val.src = ""

Thrown == [threw |-> TRUE]
Returned(v) == [threw |-> FALSE, value |-> v]

\* JSON.parse
JSON_parse(text) ==
    IF text.src = "json" THEN Returned(text.value) ELSE Thrown

\* JSON.stringify of an array of strings
JSON_stringify(order) ==
    JsonText(JsonArray([i \in 1..Len(order) |-> Str(order[i])]))

\* parsed.filter((x) => typeof x === 'string')
RECURSIVE filterStrings(_)
filterStrings(items) ==
    IF items = <<>> THEN <<>>
    ELSE IF Head(items).js = "string"
         THEN <<Head(items).val>> \o filterStrings(Tail(items))
         ELSE filterStrings(Tail(items))

\* faulty variant: the try block without its catch
getSavedColumnOrder_NoCatch(store, readThrows) ==
    IF readThrows THEN Thrown
    ELSE LET raw == store.columnOrder IN
         IF FalsyItem(raw) THEN Null
         ELSE LET parsed == JSON_parse(raw.val) IN
              IF parsed.threw THEN Thrown
              ELSE IF parsed.value.js = "array"
                   THEN [js |-> "array", items |-> filterStrings(parsed.value.items)]
                   ELSE Null

\* getSavedColumnOrder: Null, or the strings of the stored array.
\* readThrows: window.localStorage.getItem throws (storage unavailable)
getSavedColumnOrder(store, readThrows) ==
    IF readThrows THEN Null
    ELSE LET raw == store.columnOrder IN
         IF FalsyItem(raw) THEN Null
         ELSE LET parsed == JSON_parse(raw.val) IN
              IF parsed.threw THEN Null
              ELSE IF parsed.value.js = "array"
                   THEN [js |-> "array", items |-> filterStrings(parsed.value.items)]
                   ELSE Null

\* faulty variant: nothing is ever written
saveColumnOrder_NoWrite(store, order, writeThrows) == store

\* faulty variant: a failing write loses the stored value
saveColumnOrder_FailureClears(store, order, writeThrows) ==
    IF writeThrows THEN [store EXCEPT !.columnOrder = Null]
    ELSE [store EXCEPT !.columnOrder = Item(JSON_stringify(order))]

\* saveColumnOrder: the store afterwards; a failing setItem is swallowed
saveColumnOrder(store, order, writeThrows) ==
    IF writeThrows THEN store
    ELSE [store EXCEPT !.columnOrder = Item(JSON_stringify(order))]

\* order.join('|')
RECURSIVE join(_)
join(order) ==
    IF order = <<>> THEN ""
    ELSE IF Len(order) = 1 THEN order[1]
    ELSE order[1] \o "|" \o join(Tail(order))

(***************************************************************************)
(* Drafts (lib/cursor-api.ts)                                              *)
(***************************************************************************)
\* getDrafts: data ? JSON.parse(data) : []  (no try/catch: it may throw)
getDrafts(store) ==
    IF store.denied THEN Thrown
    ELSE LET data == store.drafts IN
         IF FalsyItem(data) THEN Returned(JsonArray(<<>>))
         ELSE JSON_parse(data.val)

\* getLastRepository: localStorage.getItem, the string or null as stored
getLastRepository(store) ==
    IF store.denied THEN Thrown ELSE Returned(store.lastRepository)

\* id: `draft_${Date.now()}`
draftId(t) == "draft_" \o ToString(t)

\* saveDraft: the store afterwards, or Thrown
saveDraft(store, draft, t, writeThrows) ==
    LET got == getDrafts(store) IN
    IF got.threw THEN Thrown
    ELSE IF got.value.js /= "array" THEN Thrown       \* drafts.push is not a function
    ELSE IF writeThrows \/ store.denied THEN Thrown   \* setItem throws
    ELSE LET newDraft == [id |-> draftId(t), prompt |-> draft.prompt]
         IN Returned([store EXCEPT !.drafts =
                Item(JsonText(JsonArray(Append(got.value.items, newDraft))))])

\* drafts.filter((d) => d.id !== id)
RECURSIVE filterOutId(_, _)
filterOutId(items, id) ==
    IF items = <<>> THEN <<>>
    ELSE IF Head(items).id /= id
         THEN <<Head(items)>> \o filterOutId(Tail(items), id)
         ELSE filterOutId(Tail(items), id)

\* deleteDraft: the store afterwards, or Thrown
deleteDraft(store, id, writeThrows) ==
    LET got == getDrafts(store) IN
    IF got.threw THEN Thrown
    ELSE IF got.value.js /= "array" THEN Thrown       \* .filter is not a function
    ELSE IF writeThrows \/ store.denied THEN Thrown
    ELSE Returned([store EXCEPT !.drafts =
                Item(JsonText(JsonArray(filterOutId(got.value.items, id))))])

(***************************************************************************)
(* Agents and PR statuses                                                  *)
(***************************************************************************)
PrUrl1 == Str("https://github.com/o/r/pull/1")

Agent(id, status, prUrl) == [id |-> id, status |-> status, prUrl |-> prUrl]

\* PR statuses the source-control host may report
PrOpenPending ==
    [js |-> "object", state |-> "open", isDraft |-> FALSE, mergeable |-> Bool(TRUE),
     mergeableState |-> Str("unknown"), checksStatus |-> "pending",
     hasApproval |-> FALSE, reviewDecision |-> Null]
PrMerged ==
    [js |-> "object", state |-> "merged", isDraft |-> FALSE, mergeable |-> Null,
     mergeableState |-> Str("unknown"), checksStatus |-> "success",
     hasApproval |-> TRUE, reviewDecision |-> Str("APPROVED")]
PrStatusSamples == {PrOpenPending, PrMerged}

\* agent lists the directory service may return
ServerLists ==
    { <<Agent("a1", "FINISHED", Undefined), Agent("a2", "RUNNING", Undefined)>>,
      <<Agent("a1", "FINISHED", PrUrl1), Agent("a2", "ERROR", Undefined)>>,
      <<Agent("a3", "DRAFT", Undefined), Agent("a1", "FINISHED", PrUrl1)>> }

\* Map.get
MapGet(m, k) == IF k \in DOMAIN m THEN m[k] ELSE Undefined

EmptyMap == [k \in {} |-> Null]

\* fetchPrStatusesForAgents: an entry for each agent with a PR URL whose
\* lookup returned a status; lookup[id] is what fetchPrStatus returned
withPrs(agentList) == { a \in Range(agentList) : Truthy(a.prUrl) }

fetchPrStatusesForAgents(agentList, lookup) ==
    LET ids == { a.id : a \in { b \in withPrs(agentList) : Truthy(lookup[b.id]) } }
    IN [id \in ids |-> lookup[id]]

LookupOutcomes(agentList) ==
    [ { a.id : a \in withPrs(agentList) } -> PrStatusSamples \cup {Null} ]

(***************************************************************************)
(* fetchPrStatus and its cache, fetchPrStatusesForAgents batch by batch    *)
(***************************************************************************)
PrUrl2 == Str("https://github.com/o/r/pull/2")
\* a URL that is no pull request of the source-control host
OtherUrl == Str("https://example.com/o/r/merge/3")

\* parsePrUrl: owner, repo and number of a github.com/<owner>/<repo>/pull/<n>
\* URL, null for a URL the pattern does not match
parsePrUrl(prUrl) ==
    CASE prUrl = PrUrl1.val -> [owner |-> "o", repo |-> "r", number |-> 1]
      [] prUrl = PrUrl2.val -> [owner |-> "o", repo |-> "r", number |-> 2]
      [] OTHER -> Null

PR_STATUS_CACHE_TTL == 60 * 1000

BATCH_SIZE == 5

\* faulty variant: a cached entry never expires
cachedFresh_NoExpiry(cache, prUrl, t) == prUrl \in DOMAIN cache

\* cached && Date.now() - cached.fetchedAt < PR_STATUS_CACHE_TTL
cachedFresh(cache, prUrl, t) ==
    /\ prUrl \in DOMAIN cache
    /\ t - cache[prUrl].fetchedAt < PR_STATUS_CACHE_TTL

\* agents.filter(a => a.target?.prUrl)
agentsWithPrs(agentList) == SelectSeq(agentList, LAMBDA a : Truthy(a.prUrl))

\* Array.prototype.slice(from, to) with 0-based bounds
slice(list, from, to) ==
    SubSeq(list, from + 1, IF to < Len(list) THEN to ELSE Len(list))

\* Map.prototype.set
MapSet(m, k, v) == [x \in DOMAIN m \cup {k} |-> IF x = k THEN v ELSE m[x]]

\* agent lists handed to fetchPrStatusesForAgents: seven agents with a PR
\* URL (two batches), and a short list
FanOutLists ==
    { <<Agent("a1", "FINISHED", PrUrl1), Agent("a2", "FINISHED", PrUrl2),
        Agent("a3", "FINISHED", PrUrl1), Agent("a4", "FINISHED", PrUrl2),
        Agent("a5", "FINISHED", PrUrl1), Agent("a6", "RUNNING", Undefined),
        Agent("a7", "FINISHED", OtherUrl), Agent("a8", "FINISHED", PrUrl2)>>,
      <<Agent("a1", "FINISHED", PrUrl1), Agent("a7", "FINISHED", OtherUrl)>> }

\* instants at which Date.now() is read
ClockInstants == {0, 59999, 60000, 119999}

MaxFanOutCalls == 2

(***************************************************************************)
(* Board rendering (CloudAgentsKanban, AgentColumn)                        *)
(***************************************************************************)
RECURSIVE filterByColumn(_, _, _)
filterByColumn(agentList, statuses, columnKey) ==
    IF agentList = <<>> THEN <<>>
    ELSE LET agent == Head(agentList)
             column == getColumnForStatus(agent.status, agent.prUrl,
                                          MapGet(statuses, agent.id))
         IN IF column = columnKey
            THEN <<agent>> \o filterByColumn(Tail(agentList), statuses, columnKey)
            ELSE filterByColumn(Tail(agentList), statuses, columnKey)

\* faulty variant: the grouping does not look at prStatuses
columns_NoPrStatus(k) == filterByColumn(agents, EmptyMap, k)

\* columns: the agents grouped by column, in fetch order; columns(k) is the
\* entry of the grouping object under key k
columns(k) ==
    filterByColumn(agents, prStatuses, k)

\* orderedColumns: the keys of the object handed to <Kanban value=...>
orderedColumnKeys == normalizeColumnOrder(columnOrder, allColumnKeys)

\* faulty variant: every column lists the agents, backlog included
AgentColumn_AgentsOnly(columnKey, agentsProp, draftsProp) ==
    [columnKey |-> columnKey, items |-> agentsProp, isDraft |-> columnKey = "backlog"]

\* AgentColumn: the cards one column shows
AgentColumn(columnKey, agentsProp, draftsProp) ==
    [columnKey |-> columnKey,
     items |-> IF columnKey = "backlog" THEN draftsProp ELSE agentsProp,
     isDraft |-> columnKey = "backlog"]

\* the board: one AgentColumn per entry of columnOrder; nothing is rendered
\* without an API key or after an uncaught error unmounted the tree
boardRendered == apiKeySet /\ ~crashed

Board ==
    IF ~boardRendered THEN <<>>
    ELSE [i \in 1..Len(columnOrder) |->
            LET columnKey == columnOrder[i] IN
            AgentColumn(columnKey,
                        IF columnKey \in Range(allColumnKeys) THEN columns(columnKey) ELSE <<>>,
                        IF columnKey = "backlog" THEN drafts ELSE <<>>)]

(***************************************************************************)
(* What may be in local storage when the page is opened                    *)
(***************************************************************************)
PersistedOrderItems ==
    { Null,
      Item(EmptyText),
      Item(GarbageText),
      Item(JsonText(JsonObject)),
      Item(JsonText(JsonArray(<<>>))),
      Item(JSON_stringify(allColumnKeys)),
      Item(JSON_stringify(<<"running", "backlog", "ghost_column">>)),
      Item(JSON_stringify(<<"merged", "merged", "backlog">>)),
      Item(JsonText(JsonArray(<<JsonNumber(7), Str("approved")>>))) }

Draft0 == [id |-> draftId(0), prompt |-> "p1"]

PersistedDraftItems ==
    { Null,
      Item(GarbageText),
      Item(JsonText(JsonArray(<<Draft0>>))) }

DraftPrompts == {"p1", "p2"}

\* what the three storage keys may hold when they are read
ReadDraftItems == PersistedDraftItems \cup {Item(EmptyText), Item(JsonText(JsonObject))}

ReadRepositoryItems == {Null, Str("o/r")}

ReadStores ==
    [denied : BOOLEAN, columnOrder : PersistedOrderItems, drafts : ReadDraftItems,
     lastRepository : ReadRepositoryItems]

\* positions among which the user drags columns
MaxMovePos == 2
\* user and timer events in one run
MaxEvents == 2

(***************************************************************************)
(* Initial states                                                          *)
(***************************************************************************)
\* useState initialisers of CloudAgentsKanban, for a given store
MountedWith(store) ==
    /\ storage = store
    /\ LET saved == getSavedColumnOrder(store, store.denied)
       IN columnOrder = normalizeColumnOrder(
                            IF saved = Null THEN allColumnKeys ELSE saved.items,
                            allColumnKeys)
    /\ syncPending = TRUE
    /\ written = FALSE
    /\ saveFailed = FALSE
    /\ reordered = <<>>
    /\ apiKeySet = FALSE
    /\ loadPending = FALSE
    /\ agents = <<>>
    /\ prStatuses = EmptyMap
    /\ drafts = <<>>
    /\ polls = {}
    /\ agentsOf = 0
    /\ fanOut = [poll |-> 0, lookup |-> EmptyMap]
    /\ started = 0
    /\ now = 0
    /\ isLoading = FALSE
    /\ isFetchingPrStatus = FALSE
    /\ error = Null
    /\ selectedAgent = Null
    /\ selectedIsDraft = FALSE
    /\ isDrawerOpen = FALSE
    /\ timer = Null
    /\ timerPending = TRUE
    /\ events = 0
    /\ crashed = FALSE

NoFanOut ==
    /\ PR_STATUS_CACHE = EmptyMap
    /\ batchAt = 0
    /\ awaiting = FALSE
    /\ outstanding = {}
    /\ results = EmptyMap
    /\ fanOutCalls = 0

NoPages ==
    /\ cursor = Undefined
    /\ allAgents = <<>>
    /\ requested = <<>>
    /\ responses = <<>>

\* the modal closed, no key stored
NoModal ==
    /\ storedKey = Null
    /\ apiKey = <<>>
    /\ userEmail = Null
    /\ modalError = Null
    /\ modalLoading = FALSE
    /\ test = Null

NoProbe ==
    /\ args = <<>>
    /\ result = NotCalled
    /\ NoFanOut
    /\ NoPages
    /\ NoModal

\* the board opened over empty storage that grants access
IdleBoard ==
    MountedWith([denied |-> FALSE, columnOrder |-> Null, drafts |-> Null,
                 lastRepository |-> Null])

\* the board with drafts and agents: two of the persisted orders
Init ==
    /\ NoProbe
    /\ \E denied \in BOOLEAN,
          orderItem \in {Null, Item(JSON_stringify(<<"running", "backlog", "ghost_column">>))},
          draftItem \in PersistedDraftItems :
          MountedWith([denied |-> denied, columnOrder |-> orderItem, drafts |-> draftItem,
                       lastRepository |-> Null])

\* the column order alone: every persisted order, no drafts
InitOrder ==
    /\ NoProbe
    /\ \E denied \in BOOLEAN, orderItem \in PersistedOrderItems :
          MountedWith([denied |-> denied, columnOrder |-> orderItem, drafts |-> Null,
                       lastRepository |-> Null])

(***************************************************************************)
(* Column order: sync effect and reorder events                            *)
(***************************************************************************)
\* React runs the scheduled effects of a render before it handles the next
\* event or state update
EffectsFlushed == ~syncPending /\ ~loadPending /\ ~timerPending

\* a user or timer event happens
UserEvent ==
    /\ EffectsFlushed
    /\ events < MaxEvents
    /\ events' = events + 1

\* the column-order effect (deps [allColumnKeys, columnOrder]); it runs after
\* mount and after every setColumnOrder, which always passes a new array
SyncEffect ==
    /\ syncPending
    /\ ~crashed
    /\ \E normalized \in {normalizeColumnOrder(columnOrder, allColumnKeys)} :
       IF join(normalized) /= join(columnOrder)
       THEN /\ columnOrder' = normalized
            /\ syncPending' = TRUE
            /\ UNCHANGED <<storage, written, saveFailed>>
       ELSE \E writeThrows \in BOOLEAN :
            LET fails == writeThrows \/ storage.denied IN
            /\ storage' = saveColumnOrder(storage, normalized, fails)
            /\ written' = (written \/ ~fails)
            /\ saveFailed' = fails
            /\ syncPending' = FALSE
            /\ UNCHANGED columnOrder
    /\ UNCHANGED <<probeVars, timerVars, events, reordered, apiKeySet, loadPending, draftVars,
                   drawerVars, pollVars, crashed>>

\* the column at position from dropped at position to
arrayMove(order, from, to) ==
    LET without == [i \in 1..(Len(order) - 1) |->
                        IF i < from THEN order[i] ELSE order[i + 1]]
    IN [i \in 1..Len(order) |->
            IF i < to THEN without[i]
            ELSE IF i = to THEN order[from]
            ELSE without[i - 1]]

\* Kanban onValueChange: the user dropped a column at another position
Reorder ==
    /\ UserEvent
    /\ boardRendered
    /\ \E from \in 1..MaxMovePos, to \in 1..MaxMovePos :
          /\ from /= to
          /\ LET next == arrayMove(orderedColumnKeys, from, to)
                 nextOrder == normalizeColumnOrder(next, allColumnKeys)
             IN /\ columnOrder' = nextOrder
                /\ reordered' = next
    /\ syncPending' = TRUE
    /\ UNCHANGED <<probeVars, timerVars, storage, written, saveFailed, apiKeySet, loadPending,
                   draftVars, drawerVars, pollVars, crashed>>

(***************************************************************************)
(* API key, initial load, drafts                                           *)
(***************************************************************************)
\* App: the mount effect found a stored key, or the key modal reported success
SetApiKeySet ==
    /\ EffectsFlushed
    /\ ~apiKeySet
    /\ ~crashed
    /\ apiKeySet' = TRUE
    /\ loadPending' = TRUE
    /\ timerPending' = TRUE
    /\ UNCHANGED <<probeVars, timer, events, storage, orderVars, draftVars, drawerVars, pollVars,
                   crashed>>

\* the synchronous part of loadAgents: a request goes out
loadAgentsStart ==
    /\ isLoading' = TRUE
    /\ error' = Null
    /\ started' = started + 1
    /\ polls' = polls \cup {[id |-> started + 1, phase |-> "agents", fetched |-> <<>>]}
    /\ UNCHANGED <<agents, prStatuses, agentsOf, fanOut, isFetchingPrStatus>>

\* loadDrafts: setDrafts(getDrafts()); a throw or a value that is no array
\* takes the tree down
loadDraftsFrom(store) ==
    LET got == getDrafts(store) IN
    IF got.threw \/ got.value.js /= "array"
    THEN /\ crashed' = TRUE
         /\ UNCHANGED drafts
    ELSE /\ drafts' = got.value.items
         /\ UNCHANGED crashed

\* the initial-load effect (deps [apiKeySet, loadAgents, loadDrafts])
InitialLoadEffect ==
    /\ loadPending
    /\ ~crashed
    /\ loadPending' = FALSE
    /\ loadAgentsStart
    /\ loadDraftsFrom(storage)
    /\ UNCHANGED <<probeVars, timerVars, events, storage, orderVars, apiKeySet, now, drawerVars>>

\* handleCreate(true): saveDraft, loadDrafts; a throw of saveDraft ends the handler.
\* Date.now() may or may not have advanced since the clock was last read
SaveDraft ==
    /\ UserEvent
    /\ boardRendered
    /\ \E t \in {now, now + 1}, prompt \in DraftPrompts, writeThrows \in BOOLEAN :
          LET saved == saveDraft(storage, [prompt |-> prompt], t, writeThrows) IN
          /\ now' = t
          /\ IF saved.threw
             THEN UNCHANGED <<storage, drafts, crashed>>
             ELSE /\ storage' = saved.value
                  /\ loadDraftsFrom(saved.value)
    /\ UNCHANGED <<probeVars, timerVars, orderVars, apiKeySet, loadPending, drawerVars,
                   pollVars>>

(***************************************************************************)
(* Drawer                                                                  *)
(***************************************************************************)
\* handleAgentClick on a card of the board
AgentClick ==
    /\ UserEvent
    /\ boardRendered
    /\ \E i \in 1..Len(Board) : \E j \in 1..Len(Board[i].items) :
          /\ selectedAgent' = Board[i].items[j]
          /\ selectedIsDraft' = Board[i].isDraft
    /\ isDrawerOpen' = TRUE
    /\ timerPending' = ~isDrawerOpen
    /\ UNCHANGED <<probeVars, timer, storage, orderVars, apiKeySet, loadPending, draftVars,
                   pollVars, crashed>>

\* Sheet onOpenChange(false)
CloseDrawer ==
    /\ UserEvent
    /\ isDrawerOpen
    /\ ~crashed
    /\ isDrawerOpen' = FALSE
    /\ timerPending' = TRUE
    /\ UNCHANGED <<probeVars, timer, storage, orderVars, apiKeySet, loadPending, draftVars,
                   selectedAgent, selectedIsDraft, pollVars, crashed>>

\* handleDeleteAgent for a draft: deleteDraft, loadDrafts, close; a throw is caught
DeleteDraft ==
    /\ UserEvent
    /\ boardRendered
    /\ isDrawerOpen
    /\ selectedAgent /= Null
    /\ selectedIsDraft
    /\ \E writeThrows \in BOOLEAN :
          LET deleted == deleteDraft(storage, selectedAgent.id, writeThrows) IN
          IF deleted.threw
          THEN UNCHANGED <<storage, drafts, crashed, isDrawerOpen, timerPending>>
          ELSE /\ storage' = deleted.value
               /\ loadDraftsFrom(deleted.value)
               /\ isDrawerOpen' = FALSE
               /\ timerPending' = TRUE
    /\ UNCHANGED <<probeVars, timer, orderVars, apiKeySet, loadPending, now, selectedAgent,
                   selectedIsDraft, pollVars>>

(***************************************************************************)
(* Agent polls                                                             *)
(***************************************************************************)
\* setInterval(() => { loadAgents(); }, 30000)
PollIntervalMs == 30000

\* faulty variant: the interval is set whether or not the drawer is open
autoPollInterval_IgnoresDrawer(keySet, drawerOpen) ==
    IF ~keySet THEN Null ELSE [every |-> PollIntervalMs]

\* the interval the auto-polling effect leaves behind: its cleanup has
\* cleared the previous one, and it sets none without a key or with the
\* drawer open
autoPollInterval(keySet, drawerOpen) ==
    IF ~keySet \/ drawerOpen THEN Null ELSE [every |-> PollIntervalMs]

\* the auto-polling effect (deps [apiKeySet, isDrawerOpen, loadAgents]); it
\* runs after the effects declared before it
AutoPollEffect ==
    /\ timerPending
    /\ ~syncPending
    /\ ~loadPending
    /\ ~crashed
    /\ timerPending' = FALSE
    /\ timer' = autoPollInterval(apiKeySet, isDrawerOpen)
    /\ UNCHANGED <<probeVars, events, storage, orderVars, apiKeySet, loadPending, draftVars,
                   drawerVars, pollVars, crashed>>

\* the interval fires and calls loadAgents, which returns at once without a key
TimerPoll ==
    /\ UserEvent
    /\ timer /= Null
    /\ apiKeySet
    /\ ~crashed
    /\ loadAgentsStart
    /\ UNCHANGED <<probeVars, timerVars, storage, orderVars, apiKeySet, loadPending, draftVars,
                   drawerVars, crashed>>

\* the Refresh button, disabled while isLoading
RefreshClick ==
    /\ UserEvent
    /\ boardRendered
    /\ ~isLoading
    /\ loadAgentsStart
    /\ UNCHANGED <<probeVars, timerVars, storage, orderVars, apiKeySet, loadPending, draftVars,
                   drawerVars, crashed>>

\* faulty variant: a list already held is not replaced by a later response
GetAllAgentsResolved_FirstWins ==
    /\ EffectsFlushed
    /\ ~crashed
    /\ \E p \in polls, fetchedAgents \in ServerLists :
          /\ p.phase = "agents"
          /\ agents' = IF agents = <<>> THEN fetchedAgents ELSE agents
          /\ agentsOf' = IF agents = <<>> THEN p.id ELSE agentsOf
          /\ isFetchingPrStatus' = TRUE
          /\ isLoading' = FALSE
          /\ polls' = (polls \ {p}) \cup
                        {[id |-> p.id, phase |-> "prs", fetched |-> fetchedAgents]}
    /\ UNCHANGED <<probeVars, timerVars, events, storage, orderVars, apiKeySet, loadPending, draftVars,
                   drawerVars, prStatuses, fanOut, started, error, crashed>>

\* await getAllAgents() resolved: setAgents, the fan-out starts, finally
GetAllAgentsResolved ==
    /\ EffectsFlushed
    /\ ~crashed
    /\ \E p \in polls, fetchedAgents \in ServerLists :
          /\ p.phase = "agents"
          /\ agents' = fetchedAgents
          /\ agentsOf' = p.id
          /\ isFetchingPrStatus' = TRUE
          /\ isLoading' = FALSE
          /\ polls' = (polls \ {p}) \cup
                        {[id |-> p.id, phase |-> "prs", fetched |-> fetchedAgents]}
    /\ UNCHANGED <<probeVars, timerVars, events, storage, orderVars, apiKeySet, loadPending, draftVars,
                   drawerVars, prStatuses, fanOut, started, error, crashed>>

\* faulty variant: a failed poll empties the list it could not refresh
GetAllAgentsRejected_DropsList ==
    /\ EffectsFlushed
    /\ ~crashed
    /\ \E p \in polls :
          /\ p.phase = "agents"
          /\ error' = Str("Failed to load agents")
          /\ agents' = <<>>
          /\ isLoading' = FALSE
          /\ polls' = polls \ {p}
    /\ UNCHANGED <<probeVars, timerVars, events, storage, orderVars, apiKeySet, loadPending,
                   draftVars, drawerVars, prStatuses, agentsOf, fanOut, started,
                   isFetchingPrStatus, crashed>>

\* await getAllAgents() rejected: setError, finally
GetAllAgentsRejected ==
    /\ EffectsFlushed
    /\ ~crashed
    /\ \E p \in polls :
          /\ p.phase = "agents"
          /\ error' = Str("Failed to load agents")
          /\ isLoading' = FALSE
          /\ polls' = polls \ {p}
    /\ UNCHANGED <<probeVars, timerVars, events, storage, orderVars, apiKeySet, loadPending, draftVars,
                   drawerVars, agents, prStatuses, agentsOf, fanOut, started,
                   isFetchingPrStatus, crashed>>

\* A faulty setPrStatuses that merges the new map into the previous one.
PrStatusesResolved_KeepsOld ==
    /\ EffectsFlushed
    /\ ~crashed
    /\ \E p \in polls :
          /\ p.phase = "prs"
          /\ \E lookup \in LookupOutcomes(p.fetched) :
                /\ prStatuses' =
                      LET fresh == fetchPrStatusesForAgents(p.fetched, lookup)
                      IN  [id \in DOMAIN prStatuses \cup DOMAIN fresh |->
                              IF id \in DOMAIN fresh THEN fresh[id] ELSE prStatuses[id]]
                /\ fanOut' = [poll |-> p.id, lookup |-> lookup]
          /\ isFetchingPrStatus' = FALSE
          /\ polls' = polls \ {p}
    /\ UNCHANGED <<probeVars, timerVars, events, storage, orderVars, apiKeySet, loadPending, draftVars,
                   drawerVars, agents, agentsOf, started, isLoading, error, crashed>>

\* fetchPrStatusesForAgents(fetchedAgents) resolved: setPrStatuses, finally
PrStatusesResolved ==
    /\ EffectsFlushed
    /\ ~crashed
    /\ \E p \in polls :
          /\ p.phase = "prs"
          /\ \E lookup \in LookupOutcomes(p.fetched) :
                /\ prStatuses' = fetchPrStatusesForAgents(p.fetched, lookup)
                /\ fanOut' = [poll |-> p.id, lookup |-> lookup]
          /\ isFetchingPrStatus' = FALSE
          /\ polls' = polls \ {p}
    /\ UNCHANGED <<probeVars, timerVars, events, storage, orderVars, apiKeySet, loadPending, draftVars,
                   drawerVars, agents, agentsOf, started, isLoading, error, crashed>>

(***************************************************************************)
(* The board                                                               *)
(***************************************************************************)
Next ==
    \/ SyncEffect
    \/ Reorder
    \/ SetApiKeySet
    \/ InitialLoadEffect
    \/ AutoPollEffect
    \/ SaveDraft
    \/ AgentClick
    \/ CloseDrawer
    \/ DeleteDraft
    \/ TimerPoll
    \/ RefreshClick
    \/ GetAllAgentsResolved
    \/ GetAllAgentsRejected
    \/ PrStatusesResolved

Spec == Init /\ [][Next]_vars

\* the actions that read or write the column order
NextOrder ==
    \/ SyncEffect
    \/ Reorder
    \/ SetApiKeySet
    \/ InitialLoadEffect
    \/ AutoPollEffect

\* the board without further polls: column order, drafts, drawer, first poll
NextBoard ==
    \/ SyncEffect
    \/ Reorder
    \/ SetApiKeySet
    \/ InitialLoadEffect
    \/ AutoPollEffect
    \/ SaveDraft
    \/ AgentClick
    \/ CloseDrawer
    \/ DeleteDraft
    \/ GetAllAgentsResolved
    \/ GetAllAgentsRejected
    \/ PrStatusesResolved

SpecBoard == Init /\ [][NextBoard]_vars

\* the polls and the drawer, on a board opened over empty storage
InitPoll == NoProbe /\ IdleBoard

NextPoll ==
    \/ SyncEffect
    \/ SetApiKeySet
    \/ InitialLoadEffect
    \/ AutoPollEffect
    \/ AgentClick
    \/ CloseDrawer
    \/ TimerPoll
    \/ RefreshClick
    \/ GetAllAgentsResolved
    \/ GetAllAgentsRejected
    \/ PrStatusesResolved

SpecPoll == InitPoll /\ [][NextPoll]_vars

SpecOrder == InitOrder /\ [][NextOrder]_vars

\* React runs an effect it has scheduled
SpecOrderLive == InitOrder /\ [][NextOrder]_vars /\ WF_vars(SyncEffect)

(***************************************************************************)
(* getColumnForStatus and normalizeColumnOrder on their own                *)
(***************************************************************************)
InitClassify ==
    /\ args \in [status : StatusInputs, prUrl : PrUrlInputs, prStatus : PrStatusInputs]
    /\ result = NotCalled
    /\ NoFanOut
    /\ NoPages
    /\ NoModal
    /\ IdleBoard

\* one call getColumnForStatus(status, prUrl, prStatus)
Classify ==
    /\ result = NotCalled
    /\ result' = <<getColumnForStatus(args.status, args.prUrl, args.prStatus)>>
    /\ UNCHANGED <<args, fanOutVars, pageVars, keyVars, boardVars>>

SpecClassify == InitClassify /\ [][Classify]_vars

InitNormalize ==
    /\ args \in [order : SeqsUpTo(OrderKeyInputs, MaxOrderLen), allColumns : CanonicalInputs]
    /\ result = NotCalled
    /\ NoFanOut
    /\ NoPages
    /\ NoModal
    /\ IdleBoard

\* normalizeColumnOrder applied to the order, then to what it returned
Normalize ==
    /\ Len(result) < MaxNormalizeCalls
    /\ result' = Append(result,
                        normalizeColumnOrder(
                            IF result = NotCalled THEN args.order ELSE result[Len(result)],
                            args.allColumns))
    /\ UNCHANGED <<args, fanOutVars, pageVars, keyVars, boardVars>>

SpecNormalize == InitNormalize /\ [][Normalize]_vars

(***************************************************************************)
(* The reads of persisted state on their own                               *)
(***************************************************************************)
InitRead ==
    /\ args \in [store : ReadStores]
    /\ result = NotCalled
    /\ NoFanOut
    /\ NoPages
    /\ NoModal
    /\ IdleBoard

\* getSavedColumnOrder(), getDrafts() and getLastRepository() on one store;
\* storage that denies access throws on every getItem
Read ==
    /\ result = NotCalled
    /\ result' = <<[order |-> getSavedColumnOrder(args.store, args.store.denied),
                    drafts |-> getDrafts(args.store),
                    lastRepository |-> getLastRepository(args.store)]>>
    /\ UNCHANGED <<args, fanOutVars, pageVars, keyVars, boardVars>>

SpecRead == InitRead /\ [][Read]_vars

(***************************************************************************)
(* fetchPrStatusesForAgents, one call after the other over the shared      *)
(* cache.  A lookup that finds a fresh cache entry or an unparsable URL     *)
(* returns without a request; the others wait for the network and settle   *)
(* in any order.                                                            *)
(***************************************************************************)
boardButClock == <<storage, orderVars, apiKeySet, loadPending, drafts, drawerVars,
                   pollVars, timerVars, events, crashed>>

FanOutRunning == fanOutCalls > 0 /\ result = NotCalled

InitFanOut == NoProbe /\ IdleBoard

\* fetchPrStatusesForAgents(agents): const results = new Map(), i = 0
FanOutCall ==
    /\ ~FanOutRunning
    /\ fanOutCalls < MaxFanOutCalls
    /\ \E agentList \in FanOutLists : args' = [agents |-> agentList]
    /\ result' = NotCalled
    /\ batchAt' = 0
    /\ awaiting' = FALSE
    /\ outstanding' = {}
    /\ results' = EmptyMap
    /\ fanOutCalls' = fanOutCalls + 1
    /\ UNCHANGED <<PR_STATUS_CACHE, pageVars, keyVars, boardVars>>

\* one iteration of the loop up to its await: batch.map runs fetchPrStatus
\* of every agent of the batch up to its return or its first request
BatchStart ==
    /\ FanOutRunning
    /\ ~awaiting
    /\ batchAt < Len(agentsWithPrs(args.agents))
    /\ LET batch == Range(slice(agentsWithPrs(args.agents), batchAt, batchAt + BATCH_SIZE))
           parsed == { a \in batch : parsePrUrl(a.prUrl.val) /= Null }
           hits == { a \in parsed : cachedFresh(PR_STATUS_CACHE, a.prUrl.val, now) }
       IN  /\ results' = [id \in DOMAIN results \cup { a.id : a \in hits } |->
                             IF \E a \in hits : a.id = id
                             THEN PR_STATUS_CACHE[(CHOOSE a \in hits : a.id = id).prUrl.val].status
                             ELSE results[id]]
           /\ outstanding' = outstanding \cup { a.id : a \in parsed \ hits }
    /\ awaiting' = TRUE
    /\ UNCHANGED <<args, result, PR_STATUS_CACHE, batchAt, fanOutCalls, pageVars, keyVars, boardVars>>

\* the request of one lookup settles: a status (cached, then set in results)
\* or null after a response that is not ok or a thrown error
LookupSettles ==
    /\ FanOutRunning
    /\ \E id \in outstanding, status \in PrStatusSamples \cup {Null} :
          LET prUrl == (CHOOSE a \in Range(args.agents) : a.id = id).prUrl.val
          IN  /\ outstanding' = outstanding \ {id}
              /\ IF status /= Null
                 THEN /\ PR_STATUS_CACHE' =
                            MapSet(PR_STATUS_CACHE, prUrl, [status |-> status, fetchedAt |-> now])
                      /\ results' = MapSet(results, id, status)
                 ELSE UNCHANGED <<PR_STATUS_CACHE, results>>
    /\ UNCHANGED <<args, result, batchAt, awaiting, fanOutCalls, pageVars, keyVars, boardVars>>

\* faulty variant: the loop goes on without awaiting the batch
BatchSettled_NoAwait ==
    /\ FanOutRunning
    /\ awaiting
    /\ batchAt + BATCH_SIZE < Len(agentsWithPrs(args.agents)) \/ outstanding = {}
    /\ batchAt' = batchAt + BATCH_SIZE
    /\ awaiting' = FALSE
    /\ UNCHANGED <<args, result, PR_STATUS_CACHE, outstanding, results, fanOutCalls, pageVars, keyVars, boardVars>>

\* await Promise.all(promises) resumes: every lookup of the batch settled
BatchSettled ==
    /\ FanOutRunning
    /\ awaiting
    /\ outstanding = {}
    /\ batchAt' = batchAt + BATCH_SIZE
    /\ awaiting' = FALSE
    /\ UNCHANGED <<args, result, PR_STATUS_CACHE, outstanding, results, fanOutCalls, pageVars, keyVars, boardVars>>

\* the loop ends: return results
FanOutReturns ==
    /\ FanOutRunning
    /\ ~awaiting
    /\ batchAt >= Len(agentsWithPrs(args.agents))
    /\ result' = <<results>>
    /\ UNCHANGED <<args, fanOutVars, pageVars, keyVars, boardVars>>

\* time passes
ClockAdvances ==
    /\ \E t \in ClockInstants : t > now /\ now' = t
    /\ UNCHANGED <<probeVars, boardButClock>>

NextFanOut ==
    \/ FanOutCall
    \/ BatchStart
    \/ LookupSettles
    \/ BatchSettled
    \/ FanOutReturns
    \/ ClockAdvances

SpecFanOut == InitFanOut /\ [][NextFanOut]_vars

(***************************************************************************)
(* getAllAgents: listAgents page by page against one directory service.    *)
(* args.pages[c] is the page the service returns for cursor parameter c.    *)
(***************************************************************************)
\* cursor parameters and nextCursor values of the service
PageCursors == {Undefined, Str("c1"), Str("c2")}
NextCursors == PageCursors \cup {Null, Str("")}

PageAgentLists ==
    { <<>>,
      <<Agent("a1", "RUNNING", Undefined)>>,
      <<Agent("a2", "FINISHED", PrUrl1), Agent("a3", "CREATING", Undefined)>> }

\* a ListAgentsResponse
Page(agentList, nextCursor) ==
    [js |-> "object", agents |-> agentList, nextCursor |-> nextCursor]

\* apiRequest threw: no key, a network error or a response that is not ok
PageFailure == [js |-> "error"]

MaxPages == 3

\* listAgents(limit, cursor): the query of the request; the cursor parameter
\* is set only for a truthy cursor
listAgents(limit, c) ==
    [limit |-> limit, cursor |-> IF Truthy(c) THEN c ELSE Undefined]

InitPages ==
    /\ args \in [pages : [PageCursors ->
                            { Page(l, n) : l \in PageAgentLists, n \in NextCursors }]]
    /\ result = NotCalled
    /\ NoFanOut
    /\ NoPages
    /\ NoModal
    /\ IdleBoard

\* getAllAgents(): allAgents = [], cursor undefined, the first listAgents
getAllAgentsCall ==
    /\ requested = <<>>
    /\ requested' = <<listAgents(100, cursor)>>
    /\ UNCHANGED <<args, result, fanOutVars, cursor, allAgents, responses, keyVars, boardVars>>

\* faulty variant: the loop ends after the first page
ListAgentsResponds_FirstPageOnly ==
    /\ result = NotCalled
    /\ Len(requested) > Len(responses)
    /\ LET response == args.pages[requested[Len(requested)].cursor]
       IN  /\ responses' = Append(responses, response)
           /\ allAgents' = allAgents \o response.agents
           /\ cursor' = response.nextCursor
           /\ result' = <<Returned(allAgents')>>
           /\ requested' = requested
    /\ UNCHANGED <<args, fanOutVars, keyVars, boardVars>>

\* a page arrives: push its agents, take its nextCursor, then either the
\* next listAgents or the return
ListAgentsResponds ==
    /\ result = NotCalled
    /\ Len(requested) > Len(responses)
    /\ LET response == args.pages[requested[Len(requested)].cursor]
       IN  /\ responses' = Append(responses, response)
           /\ allAgents' = allAgents \o response.agents
           /\ cursor' = response.nextCursor
           /\ IF Truthy(response.nextCursor)
              THEN /\ Len(requested) < MaxPages
                   /\ requested' = Append(requested, listAgents(100, response.nextCursor))
                   /\ result' = result
              ELSE /\ result' = <<Returned(allAgents')>>
                   /\ requested' = requested
    /\ UNCHANGED <<args, fanOutVars, keyVars, boardVars>>

\* a page request fails: the error leaves getAllAgents
ListAgentsFails ==
    /\ result = NotCalled
    /\ Len(requested) > Len(responses)
    /\ responses' = Append(responses, PageFailure)
    /\ result' = <<Thrown>>
    /\ UNCHANGED <<args, fanOutVars, cursor, allAgents, requested, keyVars, boardVars>>

NextPages ==
    \/ getAllAgentsCall
    \/ ListAgentsResponds
    \/ ListAgentsFails

SpecPages == InitPages /\ [][NextPages]_vars

(***************************************************************************)
(* The relay (api/cursor.ts, api/cursor/[...path].ts).  A header name is   *)
(* the sequence of its characters; a Headers object maps lower-case names  *)
(* to values.                                                               *)
(***************************************************************************)
Upper == <<"A", "B", "C", "D", "E", "F", "G", "H", "I", "J", "K", "L", "M">> \o
         <<"N", "O", "P", "Q", "R", "S", "T", "U", "V", "W", "X", "Y", "Z">>
Lower == <<"a", "b", "c", "d", "e", "f", "g", "h", "i", "j", "k", "l", "m">> \o
         <<"n", "o", "p", "q", "r", "s", "t", "u", "v", "w", "x", "y", "z">>

\* String.prototype.toLowerCase
toLowerCase(name) ==
    [i \in 1..Len(name) |->
        IF \E j \in 1..Len(Upper) : Upper[j] = name[i]
        THEN Lower[CHOOSE j \in 1..Len(Upper) : Upper[j] = name[i]]
        ELSE name[i]]

\* Headers.prototype.append: the name is lower-cased, a value of a name that
\* is present is joined to the value held
HeadersAppend(h, name, value) ==
    LET k == toLowerCase(name)
    IN  MapSet(h, k, IF k \in DOMAIN h THEN h[k] \o ", " \o value ELSE value)

\* request.headers: the Headers object of the header lines of a request
RECURSIVE HeadersOf(_)
HeadersOf(lines) ==
    IF lines = <<>> THEN EmptyMap
    ELSE LET last == lines[Len(lines)]
         IN  HeadersAppend(HeadersOf(SubSeq(lines, 1, Len(lines) - 1)), last[1], last[2])

\* const allow = new Set([...])
allow ==
    {
      <<"a", "u", "t", "h", "o", "r", "i", "z", "a", "t", "i", "o", "n">>,
      <<"c", "o", "n", "t", "e", "n", "t", "-", "t", "y", "p", "e">>,
      <<"a", "c", "c", "e", "p", "t">>,
      <<"u", "s", "e", "r", "-", "a", "g", "e", "n", "t">>,
      <<"x", "-", "r", "e", "q", "u", "e", "s", "t", "-", "i", "d">>
    }

\* faulty variant: every incoming header is forwarded
filterUpstreamHeaders_ForwardsAll(incoming) ==
    incoming

\* filterUpstreamHeaders: out.set(k, v) for the entries whose lower-cased
\* name is allowed (Headers.prototype.set lower-cases the name)
filterUpstreamHeaders(incoming) ==
    LET kept == { k \in DOMAIN incoming : toLowerCase(k) \in allow }
    IN  [k \in { toLowerCase(x) : x \in kept } |->
            incoming[CHOOSE x \in kept : toLowerCase(x) = k]]

\* header lines a client may send
HeaderLines ==
    {
      <<<<"A", "u", "t", "h", "o", "r", "i", "z", "a", "t", "i", "o", "n">>, "Basic a2V5Og==">>,
      <<<<"c", "o", "n", "t", "e", "n", "t", "-", "t", "y", "p", "e">>, "application/json">>,
      <<<<"A", "C", "C", "E", "P", "T">>, "text/html">>,
      <<<<"a", "c", "c", "e", "p", "t">>, "application/json">>,
      <<<<"U", "s", "e", "r", "-", "A", "g", "e", "n", "t">>, "curl">>,
      <<<<"X", "-", "R", "e", "q", "u", "e", "s", "t", "-", "I", "d">>, "r1">>,
      <<<<"C", "o", "o", "k", "i", "e">>, "sid=1">>,
      <<<<"O", "r", "i", "g", "i", "n">>, "https://app.example">>,
      <<<<"A", "c", "c", "e", "p", "t", "-", "L", "a", "n", "g", "u", "a", "g", "e">>, "en">>
    }

RelayMethods == {"GET", "POST", "OPTIONS"}

MaxHeaders == 3

\* what the handler sends upstream: nothing for a preflight, else a request
\* with the method and the filtered headers
handler(request) ==
    IF request.method = "OPTIONS" THEN Null
    ELSE [js |-> "object", method |-> request.method,
          headers |-> filterUpstreamHeaders(HeadersOf(request.lines))]

InitRelay ==
    /\ args \in [method : RelayMethods, lines : SeqsUpTo(HeaderLines, MaxHeaders)]
    /\ result = NotCalled
    /\ NoFanOut
    /\ NoPages
    /\ NoModal
    /\ IdleBoard

\* one request handled by the relay
Relay ==
    /\ result = NotCalled
    /\ result' = <<handler(args)>>
    /\ UNCHANGED <<args, fanOutVars, pageVars, keyVars, boardVars>>

SpecRelay == InitRelay /\ [][Relay]_vars

(***************************************************************************)
(* ApiKeyModal (components/api-key-modal.tsx) over the stored API key.     *)
(* A key is the sequence of its characters.                                 *)
(***************************************************************************)
\* String.prototype.trim
RECURSIVE trim(_)
trim(text) ==
    IF text = <<>> THEN <<>>
    ELSE IF Head(text) = " " THEN trim(Tail(text))
    ELSE IF text[Len(text)] = " " THEN trim(SubSeq(text, 1, Len(text) - 1))
    ELSE text

\* texts the user types into the input
KeyTexts == { <<" ">>, <<"k", "1">>, <<" ", "k", "2", " ">> }

\* getApiKey() is truthy: a key is stored and it is not the empty string
KeyStored(key) == key /= Null /\ key.val /= <<>>

boardButKeySet == <<storage, orderVars, draftVars, drawerVars, pollVars, timer, events, crashed>>

\* the modal over no stored key or over a key stored in an earlier session
InitModal ==
    /\ args = <<>>
    /\ result = NotCalled
    /\ NoFanOut
    /\ NoPages
    /\ storedKey \in {Null, Str(<<"k", "0">>)}
    /\ apiKey = <<>>
    /\ userEmail = Null
    /\ modalError = Null
    /\ modalLoading = FALSE
    /\ test = Null
    /\ IdleBoard

\* the modal opens: the stored key, if any, fills the input
ModalOpens ==
    /\ apiKey' = IF KeyStored(storedKey) THEN storedKey.val ELSE apiKey
    /\ apiKey' /= apiKey
    /\ UNCHANGED <<args, result, fanOutVars, pageVars, storedKey, userEmail, modalError,
                   modalLoading, test, boardVars>>

\* onChange of the input
TypeKey ==
    /\ \E text \in KeyTexts : apiKey' = text
    /\ userEmail' = Null
    /\ modalError' = Null
    /\ UNCHANGED <<args, result, fanOutVars, pageVars, storedKey, modalLoading, test, boardVars>>

\* handleTestConnection up to its await (the button is disabled while a
\* test runs and while the trimmed input is empty)
handleTestConnection ==
    /\ ~modalLoading
    /\ trim(apiKey) /= <<>>
    /\ modalLoading' = TRUE
    /\ modalError' = Null
    /\ userEmail' = Null
    /\ test' = [js |-> "object", previousKey |-> storedKey]
    /\ storedKey' = Str(trim(apiKey))
    /\ UNCHANGED <<args, result, fanOutVars, pageVars, apiKey, boardVars>>

\* testConnection() resolved
TestSucceeds ==
    /\ test /= Null
    /\ userEmail' = Str("user@example.com")
    /\ modalError' = Null
    /\ modalLoading' = FALSE
    /\ test' = Null
    /\ UNCHANGED <<args, result, fanOutVars, pageVars, storedKey, apiKey, boardVars>>

\* faulty variant: the catch does not touch the stored key
TestFails_NoRestore ==
    /\ test /= Null
    /\ modalError' = Str("Connection failed")
    /\ userEmail' = Null
    /\ modalLoading' = FALSE
    /\ test' = Null
    /\ UNCHANGED <<args, result, fanOutVars, pageVars, storedKey, apiKey, boardVars>>

\* testConnection() rejected: the catch restores previousKey
TestFails ==
    /\ test /= Null
    /\ storedKey' = IF KeyStored(test.previousKey) THEN test.previousKey ELSE Null
    /\ modalError' = Str("Connection failed")
    /\ userEmail' = Null
    /\ modalLoading' = FALSE
    /\ test' = Null
    /\ UNCHANGED <<args, result, fanOutVars, pageVars, apiKey, boardVars>>

\* handleSave (the button is disabled without userEmail); onSuccess is
\* App's handleApiKeySuccess
handleSave ==
    /\ userEmail /= Null
    /\ trim(apiKey) /= <<>>
    /\ storedKey' = Str(trim(apiKey))
    /\ apiKeySet' = TRUE
    /\ loadPending' = (loadPending \/ ~apiKeySet)
    /\ timerPending' = (timerPending \/ ~apiKeySet)
    /\ UNCHANGED <<args, result, fanOutVars, pageVars, apiKey, userEmail, modalError,
                   modalLoading, test, boardButKeySet>>

\* handleClear (the button is rendered while a key is stored)
handleClear ==
    /\ KeyStored(storedKey)
    /\ storedKey' = Null
    /\ apiKey' = <<>>
    /\ userEmail' = Null
    /\ modalError' = Null
    /\ UNCHANGED <<args, result, fanOutVars, pageVars, modalLoading, test, boardVars>>

NextModal ==
    \/ ModalOpens
    \/ TypeKey
    \/ handleTestConnection
    \/ TestSucceeds
    \/ TestFails
    \/ handleSave
    \/ handleClear

SpecModal == InitModal /\ [][NextModal]_vars

(***************************************************************************)
(* Properties                                                              *)
(***************************************************************************)
Called == result /= NotCalled

\* a PR URL is given: a non-empty string (target.prUrl is an optional URL)
UrlPresent(prUrl) == prUrl.js = "string" /\ prUrl.val /= ""
\* a PR status is given: neither undefined nor null
PrPresent(prStatus) == prStatus.js = "object"

\* the ordered decision list of the design: <<rule matches, column>>
DecisionList(status, prUrl, prStatus) ==
    LET fin == status = "FINISHED"
        has == fin /\ UrlPresent(prUrl) /\ PrPresent(prStatus)
    IN << <<status = "DRAFT", "backlog">>,
          <<status = "CREATING", "creating">>,
          <<status = "RUNNING", "running">>,
          <<status \in {"ERROR", "EXPIRED"}, "failed">>,
          <<fin /\ ~UrlPresent(prUrl), "needs_input">>,
          <<fin /\ ~PrPresent(prStatus), "awaiting_review">>,
          <<has /\ prStatus.state = "merged", "merged">>,
          <<has /\ prStatus.state = "closed", "merged">>,
          <<has /\ prStatus.isDraft, "draft_pr">>,
          <<has /\ (prStatus.mergeable = Bool(FALSE)
                      \/ prStatus.mergeableState = Str("dirty")), "has_conflict">>,
          <<has /\ prStatus.checksStatus = "failure", "checks_failing">>,
          <<has /\ prStatus.checksStatus = "pending", "checks_pending">>,
          <<has /\ (prStatus.hasApproval
                      \/ prStatus.reviewDecision = Str("APPROVED")), "approved">>,
          <<fin, "awaiting_review">>,
          <<TRUE, "needs_input">> >>

FirstMatch(rules) ==
    rules[CHOOSE i \in 1..Len(rules) :
            rules[i][1] /\ \A j \in 1..(i - 1) : ~rules[j][1]][2]

\* C1: for every status, PR URL and PR status, getColumnForStatus returns the
\* column of the first rule of the ordered decision list 1, 2, 3, 4, 5a-5j, 6
\* that matches.
ClassifyFollowsDecisionList ==
    Called => result[1] = FirstMatch(DecisionList(args.status, args.prUrl, args.prStatus))

\* a call in which several rules match at once: a merged PR with failing
\* checks, a conflict and an approval
ClassifyFollowsDecisionListWitness ==
    /\ Called
    /\ args.status = "FINISHED"
    /\ UrlPresent(args.prUrl)
    /\ PrPresent(args.prStatus)
    /\ args.prStatus.state = "merged"
    /\ args.prStatus.checksStatus = "failure"
    /\ args.prStatus.mergeable = Bool(FALSE)
    /\ args.prStatus.hasApproval
    /\ result[1] = "merged"

\* C2: for each of the six agent statuses and every PR URL and PR status,
\* getColumnForStatus returns one value, and it is one of the twelve keys of
\* COLUMNS.
ClassifyIsTotal ==
    (Called /\ args.status \in AgentStatuses) =>
        /\ Len(result) = 1
        /\ result[1] \in Range(allColumnKeys)

\* a finished agent whose PR was closed without a merge got a canonical column
ClassifyIsTotalWitness ==
    /\ Called
    /\ args.status = "FINISHED"
    /\ UrlPresent(args.prUrl)
    /\ PrPresent(args.prStatus)
    /\ args.prStatus.state = "closed"
    /\ result[1] \in Range(allColumnKeys)

IsPermutationOf(order, canonical) ==
    /\ Len(order) = Len(canonical)
    /\ Range(order) = Range(canonical)
    /\ \A i, j \in 1..Len(order) : order[i] = order[j] => i = j

\* C3: normalizeColumnOrder returns a permutation of the canonical list for
\* any order, also an empty one, one with duplicates, one with unknown keys.
NormalizeYieldsPermutation ==
    \A i \in 1..Len(result) : IsPermutationOf(result[i], args.allColumns)

\* an order with a duplicate and an unknown key was normalized
NormalizeYieldsPermutationWitness ==
    /\ Called
    /\ args.order = <<"merged", "ghost_column", "merged">>
    /\ args.allColumns = allColumnKeys
    /\ IsPermutationOf(result[1], allColumnKeys)
    /\ result[1][1] = "merged"

\* C4: normalizing a normalized order changes nothing.
NormalizeIsIdempotent ==
    \A i \in 2..Len(result) : result[i] = result[i - 1]

\* the second application happened on an order the first one had changed
NormalizeIsIdempotentWitness ==
    /\ Len(result) >= 2
    /\ result[1] /= args.order
    /\ Range(args.order) \cap Range(args.allColumns) /= {}
    /\ result[2] = result[1]

\* the canonical keys of order[1..n], each at its first occurrence
RECURSIVE FirstOccurrences(_, _, _)
FirstOccurrences(order, canonical, n) ==
    IF n = 0 THEN <<>>
    ELSE IF order[n] \in Range(canonical) /\ \A j \in 1..(n - 1) : order[j] /= order[n]
         THEN Append(FirstOccurrences(order, canonical, n - 1), order[n])
         ELSE FirstOccurrences(order, canonical, n - 1)

MissingKeys(order, canonical) ==
    SelectSeq(canonical, LAMBDA k : k \notin Range(order))

\* C5: normalizeColumnOrder keeps the canonical keys of the input in the order
\* of their first occurrence and then appends the canonical keys the input
\* lacks, in canonical order; [running, backlog, ghost_column] against
\* [backlog, creating, running] gives [running, backlog, creating].
NormalizeKeepsThenAppends ==
    Called =>
        /\ result[1] = FirstOccurrences(args.order, args.allColumns, Len(args.order))
                          \o MissingKeys(args.order, args.allColumns)
        /\ (/\ args.order = <<"running", "backlog", "ghost_column">>
            /\ args.allColumns = <<"backlog", "creating", "running">>)
           => result[1] = <<"running", "backlog", "creating">>

\* the scenario of the design was run
NormalizeKeepsThenAppendsWitness ==
    /\ Called
    /\ args.order = <<"running", "backlog", "ghost_column">>
    /\ args.allColumns = <<"backlog", "creating", "running">>
    /\ result[1] = <<"running", "backlog", "creating">>

\* what getSavedColumnOrder reads back from the store
StoredOrder == getSavedColumnOrder(storage, FALSE)

\* C6: after startup with any persisted value and after any reorder events,
\* the column order in memory, and every value saveColumnOrder has written,
\* is a permutation of the canonical columns.
ColumnOrderIsPermutation ==
    /\ IsPermutationOf(columnOrder, allColumnKeys)
    /\ written => /\ StoredOrder /= Null
                  /\ IsPermutationOf(StoredOrder.items, allColumnKeys)

\* a reordered board whose order was written over a stale persisted value
ColumnOrderIsPermutationWitness ==
    /\ written
    /\ events > 0
    /\ ~syncPending
    /\ columnOrder[1] = "backlog"
    /\ columnOrder[2] = "running"
    /\ StoredOrder.items = columnOrder

\* C7: status DRAFT gives backlog whatever the PR arguments are.
DraftGoesToBacklog ==
    (Called /\ args.status = "DRAFT") => result[1] = "backlog"

\* a DRAFT with the PR arguments of a merged PR
DraftGoesToBacklogWitness ==
    /\ Called
    /\ args.status = "DRAFT"
    /\ UrlPresent(args.prUrl)
    /\ PrPresent(args.prStatus)
    /\ args.prStatus.state = "merged"
    /\ result[1] = "backlog"

\* the drafts held in local storage
StoredDrafts ==
    LET got == getDrafts(storage) IN
    IF got.threw \/ got.value.js /= "array" THEN <<>> ELSE got.value.items

\* the cards of the columns of board b that are / are not the backlog column
BacklogCards(b) ==
    UNION { Range(b[i].items) : i \in { j \in 1..Len(b) : b[j].columnKey = "backlog" } }
OtherCards(b) ==
    UNION { Range(b[i].items) : i \in { j \in 1..Len(b) : b[j].columnKey /= "backlog" } }

FinishedWithoutUrlNeedsInput ==
    (Called /\ args.status = "FINISHED" /\ ~UrlPresent(args.prUrl)) =>
        result[1] = "needs_input"

\* no PR URL, yet a PR status that says merged and approved
FinishedWithoutUrlNeedsInputWitness ==
    /\ Called
    /\ args.status = "FINISHED"
    /\ args.prUrl = Undefined
    /\ PrPresent(args.prStatus)
    /\ args.prStatus.state = "merged"
    /\ args.prStatus.hasApproval
    /\ result[1] = "needs_input"

\* C10: status FINISHED with a PR URL and no PR status fetched yet gives
\* awaiting_review.
FinishedUnfetchedAwaitsReview ==
    (Called /\ args.status = "FINISHED" /\ UrlPresent(args.prUrl)
        /\ ~PrPresent(args.prStatus)) =>
        result[1] = "awaiting_review"

\* a PR URL with an undefined PR status
FinishedUnfetchedAwaitsReviewWitness ==
    /\ Called
    /\ args.status = "FINISHED"
    /\ UrlPresent(args.prUrl)
    /\ args.prStatus = Undefined
    /\ result[1] = "awaiting_review"

\* the call is about a FINISHED agent with a PR URL and an open PR status
OpenPrCall ==
    /\ args.status = "FINISHED"
    /\ UrlPresent(args.prUrl)
    /\ PrPresent(args.prStatus)
    /\ args.prStatus.state = "open"

\* C11: for status FINISHED with a PR URL, a PR status whose state is merged
\* or closed gives column merged, whatever the other six fields are.
MergedOrClosedGoesToMerged ==
    (/\ Called
     /\ args.status = "FINISHED"
     /\ UrlPresent(args.prUrl)
     /\ PrPresent(args.prStatus)
     /\ args.prStatus.state \in {"merged", "closed"}) => result[1] = "merged"

\* a closed PR that is a draft, conflicts and has failing checks
MergedOrClosedGoesToMergedWitness ==
    /\ Called
    /\ args.status = "FINISHED"
    /\ UrlPresent(args.prUrl)
    /\ PrPresent(args.prStatus)
    /\ args.prStatus.state = "closed"
    /\ args.prStatus.isDraft
    /\ args.prStatus.mergeableState = Str("dirty")
    /\ args.prStatus.checksStatus = "failure"
    /\ result[1] = "merged"

\* C12: for status FINISHED with a PR URL and an open PR that is a draft, the
\* column is draft_pr even with an approval, a conflict or failing checks.
OpenDraftGoesToDraftPr ==
    (Called /\ OpenPrCall /\ args.prStatus.isDraft) => result[1] = "draft_pr"

\* an open draft PR that is approved, conflicts and has failing checks
OpenDraftGoesToDraftPrWitness ==
    /\ Called
    /\ OpenPrCall
    /\ args.prStatus.isDraft
    /\ args.prStatus.hasApproval
    /\ args.prStatus.mergeable = Bool(FALSE)
    /\ args.prStatus.checksStatus = "failure"
    /\ result[1] = "draft_pr"

\* C13: for status FINISHED with a PR URL and an open PR that is no draft,
\* mergeable false or mergeableState "dirty" gives has_conflict whatever the
\* checks and the approval are; mergeable null with a mergeableState other
\* than "dirty" does not give has_conflict.
ConflictOutranksChecksAndApproval ==
    (Called /\ OpenPrCall /\ ~args.prStatus.isDraft) =>
        /\ (args.prStatus.mergeable = Bool(FALSE)
               \/ args.prStatus.mergeableState = Str("dirty")) => result[1] = "has_conflict"
        /\ (args.prStatus.mergeable = Null
               /\ args.prStatus.mergeableState /= Str("dirty")) => result[1] /= "has_conflict"

\* the example of the design: mergeable false, checks succeeded, approved
ConflictOutranksChecksAndApprovalWitness ==
    /\ Called
    /\ OpenPrCall
    /\ ~args.prStatus.isDraft
    /\ args.prStatus.mergeable = Bool(FALSE)
    /\ args.prStatus.mergeableState = Str("clean")
    /\ args.prStatus.checksStatus = "success"
    /\ args.prStatus.hasApproval
    /\ result[1] = "has_conflict"

\* C14: for a status outside CREATING, RUNNING, FINISHED, ERROR, EXPIRED and
\* DRAFT, getColumnForStatus returns needs_input (it returns: nothing is
\* thrown), whatever the PR URL and the PR status are.
UnknownStatusNeedsInput ==
    (Called /\ args.status \notin AgentStatuses) =>
        /\ Len(result) = 1
        /\ result[1] = "needs_input"

\* an unknown status together with a PR URL and a merged PR
UnknownStatusNeedsInputWitness ==
    /\ Called
    /\ args.status \notin AgentStatuses
    /\ UrlPresent(args.prUrl)
    /\ PrPresent(args.prStatus)
    /\ args.prStatus.state = "merged"
    /\ result[1] = "needs_input"

\* the sync effect has nothing left to do: the order in memory is its own
\* normalization and no run of the effect is scheduled
SyncFixedPoint ==
    /\ ~syncPending
    /\ columnOrder = normalizeColumnOrder(columnOrder, allColumnKeys)

\* C15: after startup with any persisted order and after every reorder, the
\* sync effect reaches its fixed point, and whenever it has, and its write
\* did not fail, the stored value is the normalized order held in memory.
SyncReachesStoredFixedPoint ==
    /\ syncPending ~> SyncFixedPoint
    /\ [](~syncPending =>
            /\ SyncFixedPoint
            /\ ~saveFailed => /\ StoredOrder /= Null
                              /\ StoredOrder.items = columnOrder)

\* a board started on a persisted order with a duplicate key, then
\* reordered, whose order is stored again
SyncReachesStoredFixedPointWitness ==
    /\ SyncFixedPoint
    /\ ~saveFailed
    /\ events > 0
    /\ columnOrder[1] = "backlog"
    /\ columnOrder[2] = "merged"
    /\ StoredOrder /= Null
    /\ StoredOrder.items = columnOrder

\* what the column order key of the read store holds
OrderItemRead == args.store.columnOrder

\* the stored text is JSON of a value that is no array
NotAnArray(item) ==
    /\ item /= Null
    /\ item.val.src = "json"
    /\ item.val.value.js /= "array"

\* the stored text is no JSON
Unparsable(item) == item /= Null /\ item.val = GarbageText

\* C16: getSavedColumnOrder returns null (it returns: nothing is raised) when
\* the key is absent, when the stored text is no JSON, when the parsed value
\* is no array, and when reading storage throws.
SavedOrderNullWhenUnreadable ==
    (/\ Called
     /\ \/ args.store.denied
        \/ OrderItemRead = Null
        \/ Unparsable(OrderItemRead)
        \/ NotAnArray(OrderItemRead)) => result[1].order = Null

\* a read of a stored text that is no JSON, from storage that grants access
SavedOrderNullWhenUnreadableWitness ==
    /\ Called
    /\ ~args.store.denied
    /\ Unparsable(OrderItemRead)
    /\ result[1].order = Null

\* the step is a run of the sync effect whose saveColumnOrder failed to write
FailedSave == syncPending /\ ~syncPending' /\ saveFailed'

\* C17: when the write to storage fails, saveColumnOrder raises nothing and
\* leaves the stored value as it was, and the order in memory stays the
\* normalized sequence of the user's last reorder.
FailedWriteKeepsReorder ==
    /\ [][FailedSave => /\ storage' = storage
                        /\ columnOrder' = columnOrder
                        /\ crashed' = crashed]_vars
    /\ []((saveFailed /\ reordered /= <<>>) =>
            columnOrder = normalizeColumnOrder(reordered, allColumnKeys))

\* storage grants reads and holds an order; the user reordered, the write of
\* the new order failed, and the board shows the new order over the old
\* stored one
FailedWriteKeepsReorderWitness ==
    /\ saveFailed
    /\ ~syncPending
    /\ ~crashed
    /\ ~storage.denied
    /\ reordered /= <<>>
    /\ columnOrder = reordered
    /\ StoredOrder /= Null
    /\ Len(StoredOrder.items) = 12
    /\ StoredOrder.items /= columnOrder

\* C18: every read of persisted state (column order, drafts, last-used
\* repository) answers a missing or corrupt stored value with its default
\* instead of raising: the order read gives null or a list, the drafts read
\* gives a list, and a drafts key holding unparsable text gives the empty
\* list.  (Stated for storage that grants access.)
ReadsTolerateCorruptValues ==
    (Called /\ ~args.store.denied) =>
        /\ result[1].order = Null \/ result[1].order.js = "array"
        /\ ~result[1].lastRepository.threw
        /\ ~result[1].drafts.threw
        /\ result[1].drafts.value.js = "array"
        /\ Unparsable(args.store.drafts) =>
                result[1].drafts = Returned(JsonArray(<<>>))

\* the drafts key holds text that is no JSON and getDrafts has thrown, while
\* the order read of the same store returned
GetDraftsThrowsOnUnparsableText ==
    /\ Called
    /\ ~args.store.denied
    /\ Unparsable(args.store.drafts)
    /\ result[1].drafts = Thrown
    /\ result[1].order = Null \/ result[1].order.js = "array"

\* the step delivers the agent list of poll p: p leaves the phase in which it
\* waits for getAllAgents and enters the PR fan-out
ResponseArrives(p) ==
    /\ p \in polls
    /\ p.phase = "agents"
    /\ \E q \in polls' : q.id = p.id /\ q.phase = "prs"

\* C19: overlapping polls all run to completion (starting a poll and the
\* arrival of a response leave the other polls outstanding), and each
\* arriving response replaces the agent list, so the list held afterwards is
\* that of the response that arrived later.
LaterResponseWins ==
    [][/\ started' /= started => polls \subseteq polls'
       /\ \A p \in polls :
             ResponseArrives(p) =>
                /\ \E q \in polls' : q.id = p.id /\ q.phase = "prs" /\ agents' = q.fetched
                /\ polls \ {p} \subseteq polls']_vars

\* two polls overlapped, the one started later was answered first, and the
\* list held is that of the poll started earlier, whose response came last
LaterResponseWinsWitness ==
    \E p \in polls, q \in polls :
        /\ p.id < q.id
        /\ p.phase = "prs"
        /\ q.phase = "prs"
        /\ p.fetched /= q.fetched
        /\ agents = p.fetched

\* C20: no timer-triggered poll starts while the drawer is open; once the
\* effects have run, the 30-second interval is set exactly while an API key
\* is set and the drawer is closed, so it is gone while the drawer is open
\* and set again when the drawer has closed.
TimerPausedWhileDrawerOpen ==
    /\ [][TimerPoll => ~isDrawerOpen]_vars
    /\ [](isDrawerOpen /\ EffectsFlushed => timer = Null)
    /\ []((EffectsFlushed /\ ~crashed) =>
            /\ timer /= Null <=> (apiKeySet /\ ~isDrawerOpen)
            /\ timer /= Null => timer.every = 30000)

\* the drawer was opened on a card and closed again, and the interval is set
\* anew
TimerPausedWhileDrawerOpenWitness ==
    /\ EffectsFlushed
    /\ ~crashed
    /\ selectedAgent /= Null
    /\ ~isDrawerOpen
    /\ timer /= Null

\* the step is the failure of poll p: it waited for getAllAgents and is gone
\* without entering the PR fan-out
PollFails(p) ==
    /\ p \in polls
    /\ p.phase = "agents"
    /\ ~\E q \in polls' : q.id = p.id

\* C21: when an agent poll fails, the error becomes non-null, the agent list
\* and the PR-status map keep their values, isLoading returns to false and
\* no poll is started by the failure; a poll starts only on the mount effect,
\* a timer tick or a user action, and a poll that starts clears the error.
FailedPollKeepsStaleData ==
    [][/\ \A p \in polls :
             PollFails(p) => /\ error' /= Null
                             /\ agents' = agents
                             /\ prStatuses' = prStatuses
                             /\ isLoading' = FALSE
                             /\ started' = started
       /\ started' /= started => /\ error' = Null
                                 /\ loadPending \/ events' = events + 1]_vars

\* a poll failed after an earlier one had delivered a list: the error is
\* shown over the stale list
FailedPollKeepsStaleDataWitness ==
    /\ error /= Null
    /\ agents /= <<>>
    /\ ~isLoading
    /\ started >= 2

\* the fan-out of poll p settles and its map is handed to setPrStatuses
FanOutSettles(p) ==
    /\ p \in polls
    /\ p.phase = "prs"
    /\ ~\E q \in polls' : q.id = p.id

CurrentBatchIds ==
    { a.id : a \in Range(slice(agentsWithPrs(args.agents), batchAt, batchAt + BATCH_SIZE)) }

\* C23: within one fan-out at most 5 lookups are outstanding at any time:
\* the outstanding lookups all belong to the batch the loop is at, a batch
\* has at most 5 agents, and a batch is started only after every lookup of
\* the batch before it has settled.
LookupsRunInBatchesOfFive ==
    [][/\ Cardinality(outstanding') <= 5
       /\ fanOutCalls' > 0 => outstanding' \subseteq CurrentBatchIds'
       /\ (~awaiting /\ awaiting') => outstanding = {}]_vars

\* the second batch of a list of seven is outstanding after the five
\* lookups of the first batch, all sent at once, returned a status
LookupsRunInBatchesOfFiveWitness ==
    /\ fanOutCalls = 1
    /\ batchAt = BATCH_SIZE
    /\ awaiting
    /\ outstanding = {"a8"}
    /\ Cardinality(DOMAIN results) = 5

\* the PR URL of the agent with the given id in the list of the running call
UrlOf(id) == (CHOOSE a \in Range(args.agents) : a.id = id).prUrl.val

\* C24: the cache is consulted before a lookup.  When a batch starts, an
\* agent whose URL parses and has a cache entry younger than 60 s gets the
\* cached status and sends no request; an agent whose URL has no entry, or
\* an entry aged 60 s or more, sends a request.  Only a lookup that returned
\* a status writes the cache (its URL, that status, the time of the write);
\* a failed lookup leaves the cache as it was.
FreshCacheEntryIsServed ==
    [][/\ (~awaiting /\ awaiting') =>
             \A a \in Range(slice(agentsWithPrs(args.agents), batchAt, batchAt + 5)) :
                parsePrUrl(a.prUrl.val) /= Null =>
                   IF /\ a.prUrl.val \in DOMAIN PR_STATUS_CACHE
                      /\ now - PR_STATUS_CACHE[a.prUrl.val].fetchedAt < 60000
                   THEN /\ a.id \notin outstanding'
                        /\ a.id \in DOMAIN results'
                        /\ results'[a.id] = PR_STATUS_CACHE[a.prUrl.val].status
                   ELSE a.id \in outstanding'
       /\ PR_STATUS_CACHE' /= PR_STATUS_CACHE =>
             \E id \in outstanding \ outstanding' :
                /\ id \in DOMAIN results'
                /\ PR_STATUS_CACHE' =
                      [u \in DOMAIN PR_STATUS_CACHE \cup {UrlOf(id)} |->
                          IF u = UrlOf(id)
                          THEN [status |-> results'[id], fetchedAt |-> now]
                          ELSE PR_STATUS_CACHE[u]]
       /\ \A id \in outstanding \ outstanding' :
             id \notin DOMAIN results' => PR_STATUS_CACHE' = PR_STATUS_CACHE]_vars

\* a second call at 60000: the entry of the first URL, written at 59999,
\* served agent a1 without a request; the entry of the second URL, written
\* at 0 and now aged 60 s, did not, and the lookup of a2 is outstanding
FreshCacheEntryIsServedWitness ==
    /\ fanOutCalls = 2
    /\ result = NotCalled
    /\ awaiting
    /\ batchAt = 0
    /\ now = 60000
    /\ PrUrl1.val \in DOMAIN PR_STATUS_CACHE
    /\ PR_STATUS_CACHE[PrUrl1.val].fetchedAt = 59999
    /\ PrUrl2.val \in DOMAIN PR_STATUS_CACHE
    /\ PR_STATUS_CACHE[PrUrl2.val].fetchedAt = 0
    /\ "a1" \in DOMAIN results
    /\ "a2" \in outstanding

\* the columns of the grouping that list the agent
ColumnsListing(agent) == { k \in Range(allColumnKeys) : agent \in Range(columns(k)) }

\* an open PR, not a draft, without a conflict, checks still running, not approved
OpenWithPendingChecks(prStatus) ==
    /\ PrPresent(prStatus)
    /\ prStatus.state = "open"
    /\ ~prStatus.isDraft
    /\ prStatus.mergeable /= Bool(FALSE)
    /\ prStatus.mergeableState /= Str("dirty")
    /\ prStatus.checksStatus = "pending"
    /\ ~prStatus.hasApproval

\* C25: a FINISHED agent without a PR URL is listed under needs_input and
\* nowhere else; once a poll has delivered it with a PR URL and a fan-out
\* has attached a status of an open PR that is no draft, has no conflict,
\* pending checks and no approval, it is listed under checks_pending and
\* nowhere else.
FinishedAgentMovesToChecksPending ==
    \A i \in 1..Len(agents) :
       agents[i].status = "FINISHED" =>
          /\ ~UrlPresent(agents[i].prUrl) => ColumnsListing(agents[i]) = {"needs_input"}
          /\ (/\ UrlPresent(agents[i].prUrl)
              /\ OpenWithPendingChecks(MapGet(prStatuses, agents[i].id)))
             => ColumnsListing(agents[i]) = {"checks_pending"}

\* a second or later poll delivered a FINISHED agent with a PR URL and the
\* fan-out of that poll attached the status of an open PR with pending checks
FinishedAgentMovesToChecksPendingWitness ==
    /\ agentsOf >= 2
    /\ fanOut.poll = agentsOf
    /\ \E i \in 1..Len(agents) :
          /\ agents[i].status = "FINISHED"
          /\ UrlPresent(agents[i].prUrl)
          /\ MapGet(prStatuses, agents[i].id) = PrOpenPending
          /\ agents[i] \in Range(columns("checks_pending"))

\* a response that carries a nextCursor: a non-empty string
CarriesCursor(response) ==
    response.nextCursor.js = "string" /\ response.nextCursor.val /= ""

\* the agents of the first n responses, in page order
RECURSIVE PagesConcatenated(_)
PagesConcatenated(n) ==
    IF n = 0 THEN <<>> ELSE PagesConcatenated(n - 1) \o responses[n].agents

\* C26: getAllAgents paginates exhaustively.  The first request has no
\* cursor; after a page a further request follows exactly if the page
\* carried a nextCursor, and it asks for that cursor; a page without a
\* nextCursor ends the call, which returns the agents of all pages in page
\* order; when a page request fails no list is returned.
PaginationIsExhaustive ==
    /\ requested /= <<>> => requested[1] = [limit |-> 100, cursor |-> Undefined]
    /\ \A i \in 1..Len(responses) :
          IF responses[i] = PageFailure
          THEN /\ i = Len(requested)
               /\ result = <<Thrown>>
          ELSE /\ responses[i] = args.pages[requested[i].cursor]
               /\ i < Len(requested) <=> CarriesCursor(responses[i])
               /\ i < Len(requested) => requested[i + 1].cursor = responses[i].nextCursor
               /\ ~CarriesCursor(responses[i]) =>
                     result = <<Returned(PagesConcatenated(i))>>
    /\ (\A i \in 1..Len(responses) : responses[i] /= PageFailure /\ CarriesCursor(responses[i]))
          => result = NotCalled

\* three pages were fetched, the third without a nextCursor, and the call
\* returned the agents of the three pages
PaginationIsExhaustiveWitness ==
    /\ Len(responses) = 3
    /\ \A i \in 1..3 : responses[i] /= PageFailure
    /\ result = <<Returned(PagesConcatenated(3))>>
    /\ responses[1].agents /= <<>>
    /\ responses[2].agents /= <<>>
    /\ responses[3].agents /= <<>>
    /\ responses[1].agents /= responses[2].agents

\* the values of the header lines whose name is `name` up to case, in the
\* order sent
RECURSIVE ValuesSent(_, _)
ValuesSent(lines, name) ==
    IF lines = <<>> THEN <<>>
    ELSE (IF toLowerCase(lines[1][1]) = name THEN <<lines[1][2]>> ELSE <<>>)
            \o ValuesSent(Tail(lines), name)

RECURSIVE CommaJoined(_)
CommaJoined(values) ==
    IF Len(values) = 1 THEN values[1]
    ELSE values[1] \o ", " \o CommaJoined(Tail(values))

AllowedNames ==
    { <<"a", "u", "t", "h", "o", "r", "i", "z", "a", "t", "i", "o", "n">>,
      <<"c", "o", "n", "t", "e", "n", "t", "-", "t", "y", "p", "e">>,
      <<"a", "c", "c", "e", "p", "t">>,
      <<"u", "s", "e", "r", "-", "a", "g", "e", "n", "t">>,
      <<"x", "-", "r", "e", "q", "u", "e", "s", "t", "-", "i", "d">> }

\* C27: the request the relay sends upstream carries exactly the incoming
\* headers whose name, compared without regard to case, is authorization,
\* content-type, accept, user-agent or x-request-id, each with the value(s)
\* sent; a header of any other name (cookie, origin, accept-language) is
\* absent from it.
OnlyAllowedHeadersForwarded ==
    (Called /\ result[1] /= Null) =>
        /\ DOMAIN result[1].headers =
              { n \in AllowedNames : ValuesSent(args.lines, n) /= <<>> }
        /\ \A n \in DOMAIN result[1].headers :
              result[1].headers[n] = CommaJoined(ValuesSent(args.lines, n))

\* a request with a cookie, an Authorization header and an upper-case
\* ACCEPT header was relayed
OnlyAllowedHeadersForwardedWitness ==
    /\ Called
    /\ result[1] /= Null
    /\ ValuesSent(args.lines, <<"c", "o", "o", "k", "i", "e">>) /= <<>>
    /\ DOMAIN result[1].headers =
          { <<"a", "u", "t", "h", "o", "r", "i", "z", "a", "t", "i", "o", "n">>,
            <<"a", "c", "c", "e", "p", "t">> }
    /\ result[1].headers[<<"a", "c", "c", "e", "p", "t">>] = "text/html"

\* C28: a fan-out launched by an older poll never overwrites the PR-status
\* map produced by the fan-out of a newer poll.
OlderFanOutNeverOverwritesNewer ==
    [][fanOut'.poll >= fanOut.poll]_vars

\* every poll has run to its end, and the PR-status map in state was built
\* from the agent list of a poll older than the one whose list is held
StatusMapOlderThanAgentList ==
    /\ polls = {}
    /\ fanOut.poll > 0
    /\ fanOut.poll < agentsOf

\* C29: a failed connection test leaves the stored API key as it was before
\* the test.  The key a test remembers is the key stored when it started,
\* and a step in which the test in flight fails ends with that key stored
\* (no key if there was none), whatever Clear Key did to the stored key in
\* between.
FailedTestRestoresStoredKey ==
    [][/\ (test = Null /\ test' /= Null) => test'.previousKey = storedKey
       /\ (test /= Null /\ test' = Null /\ modalError' /= Null)
             => storedKey' = test.previousKey]_vars

\* a test started over a stored key failed after Clear Key had removed the
\* key under test: the input is empty, the error is shown and the earlier
\* key is stored again
FailedTestRestoresStoredKeyWitness ==
    /\ test = Null
    /\ ~modalLoading
    /\ modalError /= Null
    /\ apiKey = <<>>
    /\ storedKey /= Null

\* C30: the stored drafts have pairwise distinct ids after any sequence of
\* saveDraft and deleteDraft calls, also when two drafts are saved without
\* the clock advancing between them.
StoredDraftIdsAreDistinct ==
    \A i, j \in 1..Len(StoredDrafts) :
       i /= j => StoredDrafts[i].id /= StoredDrafts[j].id

\* two drafts saved in this session at the same clock reading are stored
\* under one id
TwoDraftsShareAnId ==
    /\ events = 2
    /\ \E i, j \in 1..Len(StoredDrafts) :
          /\ i < j
          /\ StoredDrafts[i].id = StoredDrafts[j].id
          /\ StoredDrafts[i].id = draftId(now)
          /\ StoredDrafts[i].prompt /= StoredDrafts[j].prompt

====
